---------------------------- MODULE Spec2Model ----------------------------
(***************************************************************************)
(* A model of katana's storage layer, of the sampled gas oracle            *)
(* (crates/oracle/gas/src/sampled) and of StarknetVersion                  *)
(* (crates/primitives/src/version.rs): the change-tracking index           *)
(* (BlockList + ChangeHistory tables), the Latest and Historical state      *)
(* providers of crates/storage/provider/src/providers/db/state.rs, and the *)
(* transactional environment of crates/storage/db/src/mdbx/mod.rs.         *)
(*                                                                         *)
(* The specifications of the module share its variables; each leaves the   *)
(* groups it does not use idle:                                            *)
(*   SpecRead    the read path as pure functions of a database snapshot,   *)
(*               applied to snapshots drawn from bounded sets;             *)
(*   Spec        the provider: block commits over the committed tables;    *)
(*   SpecWriter  block commits and direct StateWriter calls;               *)
(*   SpecProv    historical providers that hold a read transaction;        *)
(*   SpecChain   block commits over one key, for longer chains;            *)
(*   SpecTrie    trie roots and multiproofs of pinned providers;           *)
(*   SpecDb      the environment: read and write transactions of several   *)
(*               threads over one table;                                   *)
(*   SpecCommit, SpecCursor, SpecWalk, SpecDup                             *)
(*               one thread on one table: commit and abort, cursor         *)
(*               writes, walkers, dup-sorted rows;                         *)
(*   SpecOpen    the open operations on a database directory and its       *)
(*               version stamp;                                            *)
(*   SpecMem     an in-memory database, its clones and their drops;        *)
(*   SpecBuf, SpecGas                                                      *)
(*               the gas oracle's sample buffer and its average;           *)
(*   SpecOracle  the oracle's worker and the callers of its averages;      *)
(*   SpecStore, SpecUpdate                                                 *)
(*               StateWriter calls on the tables, one after another,       *)
(*               and the same with operations of the engine that fail;     *)
(*   SpecVersion StarknetVersion printed, parsed and converted.            *)
(***************************************************************************)
EXTENDS Integers, Sequences, FiniteSets, TLC

VARIABLES
    \* ---- SpecRead: one call of a read function
    call,       \* the inputs of the call: [op, block_number, list, rows, address, key]
    ret,        \* <<>> before the call, <<result>> after it
    \* ---- Spec: the provider
    db,         \* the committed tables (what a transaction begun now observes)
    latest,     \* <<>> or <<n>>: the number of the last committed block
    writes,     \* ghost: the entity changes the block commits made, <<block, key, value>>
    touched,    \* ghost: the entity keys any writer has ever been given
    ndirect,    \* the number of StateWriter calls made outside block commits
    provs,      \* the open Historical providers: slot -> <<>> or <<provider>>
    \* ---- SpecDb: the environment
    kv,         \* the committed content of one table: key -> Option(value)
    rw,         \* <<>> or <<[owner, view]>>: the open read-write transaction
    ro,         \* thread -> <<>> or <<[view, born]>>: the thread's read-only transaction
    waiting,    \* the threads blocked inside tx_mut()
    seen,       \* thread -> the results of the reads its read-only transaction made
    \* ---- SpecCommit, SpecCursor, SpecWalk, SpecDup: one thread on one table
    tbl,        \* the committed content of a single-value table: key -> Option(value)
    wtx,        \* <<>> or <<[view, ops, cur]>>: the open write transaction and its cursor
    done,       \* ghost: <<>> or <<[ops, before]>>: the last write transaction committed
    out,        \* <<>> or <<[op, key, value, result]>>: the last cursor call and its result
    walker,     \* <<>> or <<[view, start, cur, yielded, ended]>>: a walker and its cursor
    dup,        \* a dup-sorted table and its cursor: [rows, puts, cur, yielded]
    \* ---- SpecOpen: the database directory
    dir,        \* the directory: [exists, file, readonly, env, tables, data]
    handle,     \* the open calls made on the path: [entry, before, after, result]
    refs,       \* the handles of an in-memory database, the original first and
                \* then its clones: each "alive" or "dropped"
    \* ---- SpecBuf, SpecGas: the gas oracle's sample buffer
    buf,        \* a SlidingWindowBuffer: [cap, items, pushed, evicted]
    \* ---- SpecOracle: the SampledPriceOracle, its worker and its callers
    oracle,     \* [samples, lock, pc, prices, attempts, ticks, oks, errs, last, obs]
    \* ---- SpecStore, SpecUpdate: StateWriter calls on their own; SpecVersion
    log         \* the calls made: [op, address, key, value, before], before being
                \* the tables the call found; in SpecVersion [op, version, text, result]

readVars == <<call, ret>>
provVars == <<db, latest, writes, touched, ndirect, provs>>
dbVars   == <<kv, rw, ro, waiting, seen>>
tableVars == <<tbl, wtx, done, out, walker, dup>>
fsVars   == <<dir, handle, refs>>
oracleVars == <<buf, oracle>>
writerVars == <<log>>
vars     == <<call, ret, db, latest, writes, touched, ndirect, provs,
              kv, rw, ro, waiting, seen, tbl, wtx, done, out, walker, dup, dir, handle,
              refs, buf, oracle, log>>

----------------------------------------------------------------------------
(* Option<T>: None is the empty tuple, Some(x) the one-element tuple.      *)
None == <<>>
Some(x) == <<x>>
IsNone(o) == Len(o) = 0
IsSome(o) == Len(o) = 1

(* ProviderResult<Option<T>>: val is always a tuple of integers.           *)
Ok(opt) == [tag |-> "Ok", err |-> "", val |-> opt]
Err(name, fields) == [tag |-> "Err", err |-> name, val |-> fields]

(* Byte-wise comparison of two encodings of the same length; the codecs    *)
(* are big-endian, so it is the lexicographic order of the fields.         *)
RECURSIVE LexLess(_, _)
LexLess(s, t) ==
    IF Len(s) = 0 \/ Len(t) = 0 THEN FALSE
    ELSE IF s[1] # t[1] THEN s[1] < t[1]
    ELSE LexLess(Tail(s), Tail(t))

LexLeq(s, t) == ~LexLess(t, s)

----------------------------------------------------------------------------
(* The domains of the model.                                               *)
Addresses     == {1, 2}
StorageKeys   == {1, 2}
Values        == {1, 2}     \* nonces, class hashes and storage values written
ClassHashes   == {1, 2}     \* hashes of declared classes
DefaultFelt   == 0          \* Default::default() of Nonce and ClassHash

MaxBlock == 2               \* block numbers are 0..MaxBlock
Blocks == 0..MaxBlock
Pins == 0..(MaxBlock + 1)   \* a provider may be pinned past the last block

----------------------------------------------------------------------------
(* BlockList: an ordered set of block numbers, kept as the strictly        *)
(* increasing sequence of its elements.                                    *)

StrictlyIncreasing(L) == \A i \in 1..Len(L) : \A j \in 1..Len(L) : i < j => L[i] < L[j]

IsPrefix(s, t) == Len(s) <= Len(t) /\ SubSeq(t, 1, Len(s)) = s

\* rank(n): the number of elements <= n
rank(L, n) == Cardinality({i \in 1..Len(L) : L[i] <= n})

\* select(i): the i-th smallest element, counted from 0
select(L, i) == IF i >= 0 /\ i < Len(L) THEN Some(L[i + 1]) ELSE None

\* the block number put at the front of the list, whatever the list holds
insert_front(L, b) == <<b>> \o L

\* insert(b): add b to the set
insert(L, b) ==
    IF \E i \in 1..Len(L) : L[i] = b THEN L
    ELSE LET lo == SelectSeq(L, LAMBDA x : x < b)
             hi == SelectSeq(L, LAMBDA x : x > b)
         IN lo \o <<b>> \o hi

\* state.rs:419 without the rank == 0 test, and with select(rank) for select(rank - 1)
recent_change_from_block_offbyone(block_number, block_list) ==
    select(block_list, rank(block_list, block_number))

recent_change_from_block_first(block_number, block_list) ==
    IF rank(block_list, block_number) = 0 THEN None ELSE select(block_list, 0)

recent_change_from_block(block_number, block_list) ==
    LET r == rank(block_list, block_number)
    IN IF r = 0 THEN None ELSE select(block_list, r - 1)

----------------------------------------------------------------------------
(* Dup-sorted tables: a set of rows <<key, v1, .., vn>>, the duplicates of  *)
(* one key ordered by the encoding <<v1, .., vn>>, whose first fields are   *)
(* the subkey.                                                             *)

DupMin(rows) == CHOOSE r \in rows : \A q \in rows : LexLeq(Tail(r), Tail(q))

\* The first duplicate of `key` whose encoding is >= subkey, if any.
seek_by_key_subkey(table, key, subkey) ==
    LET cands == {r \in table : r[1] = key
                                /\ LexLeq(subkey, SubSeq(r, 2, 1 + Len(subkey)))}
    IN IF cands = {} THEN None ELSE Some(DupMin(cands))

----------------------------------------------------------------------------
(* The tables a transaction reads.  A transaction is the record of the     *)
(* tables as they were when it began.                                       *)

EmptyTables ==
    [ContractInfo          |-> [a \in Addresses |-> None],
     ContractStorage       |-> {},
     ContractInfoChangeSet |-> [a \in Addresses |-> None],
     StorageChangeSet      |-> [k \in Addresses \X StorageKeys |-> None],
     NonceChangeHistory    |-> {},
     ClassChangeHistory    |-> {},
     StorageChangeHistory  |-> {},
     ClassDeclarationBlock |-> [h \in ClassHashes |-> None],
     Classes               |-> [h \in ClassHashes |-> None],
     CompiledClassHashes   |-> [h \in ClassHashes |-> None],
     Headers               |-> {}]

\* GenericContractInfo and ContractInfoChangeList with their defaults
DefaultContractInfo == [nonce |-> DefaultFelt, class_hash |-> DefaultFelt]
DefaultChangeList == [nonce_change_list |-> <<>>, class_change_list |-> <<>>]

----------------------------------------------------------------------------
(* LatestStateProvider (state.rs:102-148)                                  *)

LatestClass(tx, hash) == Ok(tx.Classes[hash])

LatestCompiledClassHash(tx, hash) == Ok(tx.CompiledClassHashes[hash])

LatestNonce(tx, address) ==
    LET info == tx.ContractInfo[address]
    IN Ok(IF IsSome(info) THEN Some(info[1].nonce) ELSE None)

LatestClassHashOfContract(tx, address) ==
    LET info == tx.ContractInfo[address]
    IN Ok(IF IsSome(info) THEN Some(info[1].class_hash) ELSE None)

LatestStorage(tx, address, storage_key) ==
    LET entry == seek_by_key_subkey(tx.ContractStorage, address, <<storage_key>>)
    IN IF IsSome(entry) /\ entry[1][2] = storage_key
       THEN Ok(Some(entry[1][3]))
       ELSE Ok(None)

----------------------------------------------------------------------------
(* HistoricalStateProvider (state.rs:224-334)                              *)

\* state.rs:226 with < for <=
is_class_declared_before_block_strict(tx, block_number, hash) ==
    LET decl_block_num == tx.ClassDeclarationBlock[hash]
    IN IsSome(decl_block_num) /\ decl_block_num[1] < block_number

is_class_declared_before_block(tx, block_number, hash) ==
    LET decl_block_num == tx.ClassDeclarationBlock[hash]
    IN IsSome(decl_block_num) /\ decl_block_num[1] <= block_number

HistoricalClass(tx, block_number, hash) ==
    IF is_class_declared_before_block(tx, block_number, hash)
    THEN Ok(tx.Classes[hash])
    ELSE Ok(None)

HistoricalCompiledClassHash(tx, block_number, hash) ==
    IF is_class_declared_before_block(tx, block_number, hash)
    THEN Ok(tx.CompiledClassHashes[hash])
    ELSE Ok(None)

\* a historical nonce read that ignores the pin and reads the latest table
HistoricalNonce_latest(tx, block_number, address) == LatestNonce(tx, address)

HistoricalNonce(tx, block_number, address) ==
    LET change_list == tx.ContractInfoChangeSet[address]
        num == IF IsSome(change_list)
               THEN recent_change_from_block(block_number, change_list[1].nonce_change_list)
               ELSE None
    IN IF IsSome(num)
       THEN LET entry == seek_by_key_subkey(tx.NonceChangeHistory, num[1], <<address>>)
            IN IF IsNone(entry)
               THEN Err("MissingContractNonceChangeEntry", <<num[1], address>>)
               ELSE IF entry[1][2] = address
                    THEN Ok(Some(entry[1][3]))
                    ELSE Ok(None)
       ELSE Ok(None)

HistoricalClassHashOfContract(tx, block_number, address) ==
    LET change_list == tx.ContractInfoChangeSet[address]
        num == IF IsSome(change_list)
               THEN recent_change_from_block(block_number, change_list[1].class_change_list)
               ELSE None
    IN IF IsSome(num)
       THEN LET entry == seek_by_key_subkey(tx.ClassChangeHistory, num[1], <<address>>)
            IN IF IsNone(entry)
               THEN Err("MissingContractClassChangeEntry", <<num[1], address>>)
               ELSE IF entry[1][2] = address
                    THEN Ok(Some(entry[1][3]))
                    ELSE Ok(None)
       ELSE Ok(None)

\* a historical storage read that takes the last change of the list,
\* whatever the pin
HistoricalStorage_last_change(tx, block_number, address, storage_key) ==
    LET block_list == tx.StorageChangeSet[<<address, storage_key>>]
        num == IF IsSome(block_list) /\ block_list[1] # <<>>
               THEN Some(block_list[1][Len(block_list[1])])
               ELSE None
    IN IF IsSome(num)
       THEN LET entry == seek_by_key_subkey(tx.StorageChangeHistory, num[1],
                                            <<address, storage_key>>)
            IN IF IsNone(entry)
               THEN Err("MissingStorageChangeEntry", <<num[1], address, storage_key>>)
               ELSE IF entry[1][2] = address /\ entry[1][3] = storage_key
                    THEN Ok(Some(entry[1][4]))
                    ELSE Ok(None)
       ELSE Ok(None)

HistoricalStorage(tx, block_number, address, storage_key) ==
    LET block_list == tx.StorageChangeSet[<<address, storage_key>>]
        num == IF IsSome(block_list)
               THEN recent_change_from_block(block_number, block_list[1])
               ELSE None
    IN IF IsSome(num)
       THEN LET entry == seek_by_key_subkey(tx.StorageChangeHistory, num[1],
                                            <<address, storage_key>>)
            IN IF IsNone(entry)
               THEN Err("MissingStorageChangeEntry", <<num[1], address, storage_key>>)
               ELSE IF entry[1][2] = address /\ entry[1][3] = storage_key
                    THEN Ok(Some(entry[1][4]))
                    ELSE Ok(None)
       ELSE Ok(None)

----------------------------------------------------------------------------
(* StateWriter and ContractClassWriter (state.rs:20-90), as functions from  *)
(* the tables a write transaction sees to the tables it commits.           *)

\* set_nonce that builds the row from the default whatever the table holds.
set_nonce_from_default(tx, address, nonce) ==
    [tx EXCEPT !.ContractInfo[address] = Some([DefaultContractInfo EXCEPT !.nonce = nonce])]

set_nonce(tx, address, nonce) ==
    LET info == tx.ContractInfo[address]
        value == IF IsSome(info)
                 THEN [info[1] EXCEPT !.nonce = nonce]
                 ELSE [DefaultContractInfo EXCEPT !.nonce = nonce]
    IN [tx EXCEPT !.ContractInfo[address] = Some(value)]

\* set_storage without delete_current: the new entry is upserted beside
\* the one the slot holds.
set_storage_keeps_old(tx, address, storage_key, storage_value) ==
    [tx EXCEPT !.ContractStorage = @ \cup {<<address, storage_key, storage_value>>}]

set_storage(tx, address, storage_key, storage_value) ==
    LET entry == seek_by_key_subkey(tx.ContractStorage, address, <<storage_key>>)
        kept == IF IsSome(entry) /\ entry[1][2] = storage_key
                THEN tx.ContractStorage \ {entry[1]}
                ELSE tx.ContractStorage
    IN [tx EXCEPT !.ContractStorage = kept \cup {<<address, storage_key, storage_value>>}]

set_class_hash_of_contract(tx, address, class_hash) ==
    LET info == tx.ContractInfo[address]
        value == IF IsSome(info)
                 THEN [info[1] EXCEPT !.class_hash = class_hash]
                 ELSE [DefaultContractInfo EXCEPT !.class_hash = class_hash]
    IN [tx EXCEPT !.ContractInfo[address] = Some(value)]

set_class(tx, hash, class) == [tx EXCEPT !.Classes[hash] = Some(class)]

set_compiled_class_hash_of_class_hash(tx, hash, compiled_hash) ==
    [tx EXCEPT !.CompiledClassHashes[hash] = Some(compiled_hash)]

----------------------------------------------------------------------------
(* The commit of a block: one write transaction that, for every change of  *)
(* the block's state diff, writes the new value to the latest table, adds  *)
(* the block number to the entity's block list and puts the change entry   *)
(* of the block.  An entity key is <<kind, address or hash, storage key>>;  *)
(* a change is <<kind, address or hash, storage key, value>>.              *)

KeyOf(c) == <<c[1], c[2], c[3]>>

\* A class and its compiled class hash are functions of the class hash.
ClassOf(hash) == 10 + hash
CompiledOf(hash) == 20 + hash

ChangeListOf(tx, address) ==
    IF IsSome(tx.ContractInfoChangeSet[address])
    THEN tx.ContractInfoChangeSet[address][1]
    ELSE DefaultChangeList

StorageListOf(tx, address, key) ==
    IF IsSome(tx.StorageChangeSet[<<address, key>>])
    THEN tx.StorageChangeSet[<<address, key>>][1]
    ELSE <<>>

\* a commit that adds the block to the block list and puts no change entry
ApplyChange_no_entry(tx, b, c) ==
    IF c[1] = "nonce"
    THEN [set_nonce(tx, c[2], c[4]) EXCEPT
            !.ContractInfoChangeSet[c[2]] =
                Some([ChangeListOf(tx, c[2]) EXCEPT !.nonce_change_list = insert(@, b)])]
    ELSE tx

ApplyChange(tx, b, c) ==
    IF c[1] = "nonce" THEN
        [set_nonce(tx, c[2], c[4]) EXCEPT
            !.ContractInfoChangeSet[c[2]] =
                Some([ChangeListOf(tx, c[2]) EXCEPT !.nonce_change_list = insert(@, b)]),
            !.NonceChangeHistory = @ \cup {<<b, c[2], c[4]>>}]
    ELSE IF c[1] = "class_hash" THEN
        [set_class_hash_of_contract(tx, c[2], c[4]) EXCEPT
            !.ContractInfoChangeSet[c[2]] =
                Some([ChangeListOf(tx, c[2]) EXCEPT !.class_change_list = insert(@, b)]),
            !.ClassChangeHistory = @ \cup {<<b, c[2], c[4]>>}]
    ELSE IF c[1] = "storage" THEN
        [set_storage(tx, c[2], c[3], c[4]) EXCEPT
            !.StorageChangeSet[<<c[2], c[3]>>] = Some(insert(StorageListOf(tx, c[2], c[3]), b)),
            !.StorageChangeHistory = @ \cup {<<b, c[2], c[3], c[4]>>}]
    ELSE \* "declare"
        [set_class(set_compiled_class_hash_of_class_hash(tx, c[2], CompiledOf(c[2])),
                   c[2], ClassOf(c[2])) EXCEPT
            !.ClassDeclarationBlock[c[2]] = Some(b)]

RECURSIVE ApplyChanges(_, _, _)
ApplyChanges(tx, b, changes) ==
    IF changes = {} THEN tx
    ELSE LET c == CHOOSE x \in changes : TRUE
         IN ApplyChanges(ApplyChange(tx, b, c), b, changes \ {c})

insert_block_with_states_and_receipts(tx, b, changes) ==
    [ApplyChanges(tx, b, changes) EXCEPT !.Headers = @ \cup {b}]

----------------------------------------------------------------------------
(* The variables of a specification that does not use them.                *)

ReadIdle == call = <<>> /\ ret = <<>>

ProvIdle ==
    /\ db = EmptyTables /\ latest = None /\ writes = {} /\ touched = {}
    /\ ndirect = 0 /\ provs = <<>>

DbIdle == kv = <<>> /\ rw = None /\ ro = <<>> /\ waiting = {} /\ seen = <<>>

TableIdle ==
    /\ tbl = <<>> /\ wtx = None /\ done = None /\ out = None /\ walker = None
    /\ dup = <<>>

FsIdle == dir = <<>> /\ handle = None /\ refs = <<>>
OracleIdle == buf = <<>> /\ oracle = <<>>
WriterIdle == log = <<>>

----------------------------------------------------------------------------
(* SpecRead: the read functions applied to snapshots drawn from bounded    *)
(* sets.  The snapshots include those in which a block list names a block  *)
(* that has no change entry: a database file is an input of the program.   *)

MaxListBlock == 10          \* the block lists of a "recent" call are subsets of 0..MaxListBlock
MaxRows == 2                \* rows of the change history table of a snapshot

RECURSIVE SortedSeq(_)
SortedSeq(S) ==
    IF S = {} THEN <<>>
    ELSE LET m == CHOOSE x \in S : \A y \in S : x <= y
         IN <<m>> \o SortedSeq(S \ {m})

RECURSIVE SubsetsUpTo(_, _)
SubsetsUpTo(X, n) ==
    IF n = 0 THEN {{}}
    ELSE LET P == SubsetsUpTo(X, n - 1)
         IN P \cup {p \cup {x} : p \in P, x \in X}

BlockLists(B) == {SortedSeq(S) : S \in SUBSET B}

RowValues == {1}

Call(op, n, l, r, a, k) ==
    [op |-> op, block_number |-> n, list |-> l, rows |-> r, address |-> a, key |-> k]

InitRead ==
    /\ \/ \E l \in BlockLists(0..MaxListBlock), n \in 0..(MaxListBlock + 1) :
            call = Call("recent", n, l, {}, 1, 1)
       \/ \E op \in {"nonce", "class_hash"}, l \in BlockLists(Blocks), n \in Pins,
             r \in SubsetsUpTo(Blocks \X Addresses \X RowValues, MaxRows),
             a \in Addresses :
            call = Call(op, n, l, r, a, 1)
       \/ \E l \in BlockLists(Blocks), n \in Pins,
             r \in SubsetsUpTo(Blocks \X Addresses \X StorageKeys \X RowValues, MaxRows),
             a \in Addresses, k \in StorageKeys :
            call = Call("storage", n, l, r, a, k)
    /\ ret = <<>>
    /\ ProvIdle /\ DbIdle /\ TableIdle /\ FsIdle /\ OracleIdle /\ WriterIdle

\* The snapshot of a call: the block list of the entity read and the rows of
\* its change history table.
CallTx ==
    [EmptyTables EXCEPT
       !.ContractInfoChangeSet[call.address] =
            IF call.op = "nonce"
            THEN Some([DefaultChangeList EXCEPT !.nonce_change_list = call.list])
            ELSE IF call.op = "class_hash"
            THEN Some([DefaultChangeList EXCEPT !.class_change_list = call.list])
            ELSE None,
       !.StorageChangeSet[<<call.address, call.key>>] =
            IF call.op = "storage" THEN Some(call.list) ELSE None,
       !.NonceChangeHistory = IF call.op = "nonce" THEN call.rows ELSE {},
       !.ClassChangeHistory = IF call.op = "class_hash" THEN call.rows ELSE {},
       !.StorageChangeHistory = IF call.op = "storage" THEN call.rows ELSE {}]

RecentChange ==
    /\ call.op = "recent" /\ ret = <<>>
    /\ ret' = <<recent_change_from_block(call.block_number, call.list)>>
    /\ UNCHANGED <<call, provVars, dbVars, tableVars, fsVars, oracleVars, writerVars>>

ReadNonce ==
    /\ call.op = "nonce" /\ ret = <<>>
    /\ ret' = <<HistoricalNonce(CallTx, call.block_number, call.address)>>
    /\ UNCHANGED <<call, provVars, dbVars, tableVars, fsVars, oracleVars, writerVars>>

ReadClassHash ==
    /\ call.op = "class_hash" /\ ret = <<>>
    /\ ret' = <<HistoricalClassHashOfContract(CallTx, call.block_number, call.address)>>
    /\ UNCHANGED <<call, provVars, dbVars, tableVars, fsVars, oracleVars, writerVars>>

ReadStorage ==
    /\ call.op = "storage" /\ ret = <<>>
    /\ ret' = <<HistoricalStorage(CallTx, call.block_number, call.address, call.key)>>
    /\ UNCHANGED <<call, provVars, dbVars, tableVars, fsVars, oracleVars, writerVars>>

NextRead == RecentChange \/ ReadNonce \/ ReadClassHash \/ ReadStorage

SpecRead == InitRead /\ [][NextRead]_vars

----------------------------------------------------------------------------
(* Claims checked under SpecRead.                                          *)

SetMax(S) == CHOOSE x \in S : \A y \in S : y <= x
SetMin(S) == CHOOSE x \in S : \A y \in S : x <= y

\* The greatest element of L that is <= n, if any.
GreatestAtOrBefore(L, n) ==
    LET S == {L[i] : i \in {j \in 1..Len(L) : L[j] <= n}}
    IN IF S = {} THEN None ELSE Some(SetMax(S))

\* C2: recent_change_from_block(N, L) is the greatest element of the strictly
\* increasing list L that is <= N, and None exactly when L has no such element
\* (the empty list included).
C2_RecentChangeIsGreatestAtOrBefore ==
    (call.op = "recent" /\ ret # <<>>) =>
        /\ StrictlyIncreasing(call.list)
        /\ ret[1] = GreatestAtOrBefore(call.list, call.block_number)
        /\ (IsNone(ret[1]) <=> \A i \in 1..Len(call.list) : call.list[i] > call.block_number)

\* The list of the rank/select test: a pin strictly between two elements.
C2_Witness ==
    /\ call.op = "recent" /\ call.list = <<1, 2, 5, 6, 10>> /\ call.block_number = 9
    /\ ret = <<Some(6)>>

\* The entity key a call reads, as the subkey of its change history table.
CallKey == IF call.op = "storage" THEN <<call.address, call.key>> ELSE <<call.address>>

CallMissingError ==
    IF call.op = "nonce" THEN "MissingContractNonceChangeEntry"
    ELSE IF call.op = "class_hash" THEN "MissingContractClassChangeEntry"
    ELSE "MissingStorageChangeEntry"

\* The block list of the call selects a block and the history has no row of
\* the call's key at that block.
CallRowMissing ==
    LET t == recent_change_from_block(call.block_number, call.list)
    IN /\ IsSome(t)
       /\ ~\E r \in call.rows : r[1] = t[1] /\ SubSeq(r, 2, 1 + Len(CallKey)) = CallKey

\* C3: when the block list of K selects a block t and the change history has no
\* row of K at t, a historical nonce, class-hash or storage read fails with the
\* missing-change-entry error for (t, K).
C3_MissingEntryIsAnError ==
    (call.op \in {"nonce", "class_hash", "storage"} /\ ret # <<>> /\ CallRowMissing) =>
        /\ ret[1].tag = "Err"
        /\ ret[1].err = CallMissingError
        /\ ret[1].val = <<recent_change_from_block(call.block_number, call.list)[1]>> \o CallKey

----------------------------------------------------------------------------
(* Spec: the provider under block commits.  Blocks are committed in order, *)
(* each with a state diff of at most MaxChanges changes (one per entity    *)
(* key); a block may change nothing.                                       *)

MaxChanges == 2             \* changes in the state diff of one block
MaxWrites == 2              \* changes over all the blocks of a behaviour
MaxDirect == 1              \* StateWriter calls outside a block commit

StateKeys ==
    ({"nonce", "class_hash"} \X Addresses \X {0}) \cup ({"storage"} \X Addresses \X StorageKeys)

AllChanges ==
    {<<k[1], k[2], k[3], v>> : k \in StateKeys, v \in Values}
        \cup {<<"declare", h, 0, 0>> : h \in ClassHashes}

\* The state diffs: at most one change per entity key.
Diffs(changes, n) ==
    {d \in SubsetsUpTo(changes, n) : \A c1 \in d : \A c2 \in d : KeyOf(c1) = KeyOf(c2) => c1 = c2}

NextBlock == IF IsNone(latest) THEN 0 ELSE latest[1] + 1

Init == ReadIdle /\ ProvIdle /\ DbIdle /\ TableIdle /\ FsIdle /\ OracleIdle /\ WriterIdle

InsertBlock(changes) ==
    /\ NextBlock <= MaxBlock
    /\ Cardinality(writes) + Cardinality(changes) <= MaxWrites
    \* a class is declared once
    /\ \A c \in changes : c[1] = "declare" => IsNone(db.ClassDeclarationBlock[c[2]])
    /\ db' = insert_block_with_states_and_receipts(db, NextBlock, changes)
    /\ latest' = Some(NextBlock)
    /\ writes' = writes \cup {<<NextBlock, KeyOf(c), c[4]>> : c \in changes}
    /\ touched' = touched \cup {KeyOf(c) : c \in changes}
    /\ UNCHANGED <<ndirect, provs, readVars, dbVars, tableVars, fsVars, oracleVars, writerVars>>

Next == \E d \in Diffs(AllChanges, MaxChanges) : InsertBlock(d)

Spec == Init /\ [][Next]_vars

----------------------------------------------------------------------------
(* SpecWriter: the StateWriter operations called on their own, at most     *)
(* MaxDirect times, beside block commits of one change each.               *)

WriterChanges ==
    {<<"declare", h, 0, 0>> : h \in ClassHashes} \cup {<<"nonce", 1, 0, v>> : v \in Values}

SetNonce(address, nonce) ==
    /\ ndirect < MaxDirect
    /\ db' = set_nonce(db, address, nonce)
    /\ touched' = touched \cup {<<"nonce", address, 0>>}
    /\ ndirect' = ndirect + 1
    /\ UNCHANGED <<latest, writes, provs, readVars, dbVars, tableVars, fsVars, oracleVars, writerVars>>

SetClassHashOfContract(address, class_hash) ==
    /\ ndirect < MaxDirect
    /\ db' = set_class_hash_of_contract(db, address, class_hash)
    /\ touched' = touched \cup {<<"class_hash", address, 0>>}
    /\ ndirect' = ndirect + 1
    /\ UNCHANGED <<latest, writes, provs, readVars, dbVars, tableVars, fsVars, oracleVars, writerVars>>

SetStorage(address, storage_key, storage_value) ==
    /\ ndirect < MaxDirect
    /\ db' = set_storage(db, address, storage_key, storage_value)
    /\ touched' = touched \cup {<<"storage", address, storage_key>>}
    /\ ndirect' = ndirect + 1
    /\ UNCHANGED <<latest, writes, provs, readVars, dbVars, tableVars, fsVars, oracleVars, writerVars>>

SetClass(hash) ==
    /\ ndirect < MaxDirect
    /\ db' = set_class(db, hash, ClassOf(hash))
    /\ ndirect' = ndirect + 1
    /\ UNCHANGED <<latest, writes, touched, provs, readVars, dbVars, tableVars, fsVars, oracleVars, writerVars>>

SetCompiledClassHash(hash) ==
    /\ ndirect < MaxDirect
    /\ db' = set_compiled_class_hash_of_class_hash(db, hash, CompiledOf(hash))
    /\ ndirect' = ndirect + 1
    /\ UNCHANGED <<latest, writes, touched, provs, readVars, dbVars, tableVars, fsVars, oracleVars, writerVars>>

NextWriter ==
    \/ \E d \in Diffs(WriterChanges, 1) : InsertBlock(d)
    \/ \E a \in Addresses, v \in Values : SetNonce(a, v)
    \/ \E a \in Addresses, v \in Values : SetClassHashOfContract(a, v)
    \/ \E a \in Addresses, k \in StorageKeys, v \in Values : SetStorage(a, k, v)
    \/ \E h \in ClassHashes : SetClass(h)
    \/ \E h \in ClassHashes : SetCompiledClassHash(h)

SpecWriter == Init /\ [][NextWriter]_vars

----------------------------------------------------------------------------
(* Claims checked under Spec and SpecWriter.                               *)

\* The read of entity key K by a Historical provider pinned at n, and by the
\* Latest provider, over the tables tx.
HistoricalRead(tx, n, K) ==
    IF K[1] = "nonce" THEN HistoricalNonce(tx, n, K[2])
    ELSE IF K[1] = "class_hash" THEN HistoricalClassHashOfContract(tx, n, K[2])
    ELSE HistoricalStorage(tx, n, K[2], K[3])

LatestRead(tx, K) ==
    IF K[1] = "nonce" THEN LatestNonce(tx, K[2])
    ELSE IF K[1] = "class_hash" THEN LatestClassHashOfContract(tx, K[2])
    ELSE LatestStorage(tx, K[2], K[3])

StateWrites == {w \in writes : w[2][1] # "declare"}

\* C1: if the commit of block N set K to v, a Historical provider pinned at N
\* reads Some(v) for K, whatever was committed before and after.
C1_HistoricalRoundTrip ==
    \A w \in StateWrites : HistoricalRead(db, w[1], w[2]) = Ok(Some(w[3]))

\* A key set in block 0 and set to another value in block 1, with a further
\* block committed after.
C1_Witness ==
    /\ latest = Some(2)
    /\ \E w1 \in StateWrites, w2 \in StateWrites :
          w1[1] = 0 /\ w2[1] = 1 /\ w1[2] = w2[2] /\ w1[3] # w2[3]

\* C4: a key no writer was ever given reads None from the Latest provider and
\* from a Historical provider at every pin.
C4_NeverWrittenReadsNone ==
    \A K \in StateKeys \ touched :
        /\ LatestRead(db, K) = Ok(None)
        /\ \A n \in Pins : HistoricalRead(db, n, K) = Ok(None)

\* C5: under a pin N a class is visible exactly when its declaration block is
\* recorded and <= N; the class and its compiled class hash read None
\* otherwise, and the stored values when it is visible.
C5_ClassVisibleFromDeclarationBlock ==
    \A h \in ClassHashes : \A n \in Pins :
        LET declared == {w \in writes : w[2] = <<"declare", h, 0>>}
            visible == \E w \in declared : w[1] <= n
        IN /\ visible <=> (IsSome(db.ClassDeclarationBlock[h])
                            /\ db.ClassDeclarationBlock[h][1] <= n)
           /\ HistoricalClass(db, n, h) = Ok(IF visible THEN Some(ClassOf(h)) ELSE None)
           /\ HistoricalCompiledClassHash(db, n, h)
                = Ok(IF visible THEN Some(CompiledOf(h)) ELSE None)

\* A class declared in block 1, two blocks on, while another class is stored
\* without a declaration: invisible at pin 0, visible at pin 1.
C5_Witness ==
    /\ latest = Some(2)
    /\ \E h \in ClassHashes :
          /\ <<1, <<"declare", h, 0>>, 0>> \in writes
          /\ HistoricalClass(db, 0, h) = Ok(None)
          /\ HistoricalClass(db, 1, h) = Ok(Some(ClassOf(h)))
          /\ \E g \in ClassHashes \ {h} :
                IsSome(db.Classes[g]) /\ IsNone(db.ClassDeclarationBlock[g])

\* The block list of entity key K and the rows of its change history table.
BlockListOf(tx, K) ==
    IF K[1] = "nonce" THEN ChangeListOf(tx, K[2]).nonce_change_list
    ELSE IF K[1] = "class_hash" THEN ChangeListOf(tx, K[2]).class_change_list
    ELSE StorageListOf(tx, K[2], K[3])

HasChangeEntry(tx, b, K) ==
    IF K[1] = "nonce" THEN \E r \in tx.NonceChangeHistory : r[1] = b /\ r[2] = K[2]
    ELSE IF K[1] = "class_hash" THEN \E r \in tx.ClassChangeHistory : r[1] = b /\ r[2] = K[2]
    ELSE \E r \in tx.StorageChangeHistory : r[1] = b /\ r[2] = K[2] /\ r[3] = K[3]

Complete(tx) ==
    \A K \in StateKeys :
        \A i \in 1..Len(BlockListOf(tx, K)) : HasChangeEntry(tx, BlockListOf(tx, K)[i], K)

\* C9: in every committed state, every block number of the block list of K
\* has a change entry of K at that block.
C9_ChangeHistoryComplete == Complete(db)

\* Two keys changed in one block, the second block of the chain.
C9_Witness ==
    \E K1 \in StateKeys : \E K2 \in StateKeys \ {K1} :
        /\ BlockListOf(db, K1) = <<1>>
        /\ BlockListOf(db, K2) = <<1>>

----------------------------------------------------------------------------
(* SpecChain: a longer chain over the entity keys of one contract, so that *)
(* a key can be set, changed and changed back.                             *)

MaxChainBlock == 3          \* the last block number of the chain
MaxChainWrites == 3         \* changes over all the blocks of the chain

ChainKeys == {<<"nonce", 1, 0>>, <<"class_hash", 1, 0>>, <<"storage", 1, 1>>}

ChainChanges == {<<k[1], k[2], k[3], v>> : k \in ChainKeys, v \in Values}

InsertChainBlock(changes) ==
    /\ NextBlock <= MaxChainBlock
    /\ Cardinality(writes) + Cardinality(changes) <= MaxChainWrites
    /\ db' = insert_block_with_states_and_receipts(db, NextBlock, changes)
    /\ latest' = Some(NextBlock)
    /\ writes' = writes \cup {<<NextBlock, KeyOf(c), c[4]>> : c \in changes}
    /\ touched' = touched \cup {KeyOf(c) : c \in changes}
    /\ UNCHANGED <<ndirect, provs, readVars, dbVars, tableVars, fsVars, oracleVars, writerVars>>

NextChain == \E d \in Diffs(ChainChanges, MaxChanges) : InsertChainBlock(d)

SpecChain == Init /\ [][NextChain]_vars

\* The committed blocks, and the blocks whose commit changed K.
Committed == IF IsNone(latest) THEN {} ELSE 0..latest[1]

ChangedIn(K, lo, hi) == \E w \in writes : w[2] = K /\ lo <= w[1] /\ w[1] <= hi

\* The value of K before block c, by the commits made: the value of the last
\* change before c, None when there is none.
ValueBefore(K, c) ==
    LET S == {w \in writes : w[2] = K /\ w[1] < c}
    IN IF S = {} THEN None
       ELSE Some((CHOOSE w \in S : \A x \in S : x[1] <= w[1])[3])

\* The commit of block c changed K and altered its value.
Altered(K, c) == \E w \in writes : w[1] = c /\ w[2] = K /\ ValueBefore(K, c) # Some(w[3])

\* C11 as stated: for committed b1 < b2 and a key K changed in a block c with
\* b1 < c < b2, where that change altered K's value and K was not changed again
\* in (c, b2], the Historical reads of K at b1 and at b2 differ.
C11_ChangeBetweenPinsDiffers ==
    \A K \in ChainKeys : \A b1 \in Committed : \A b2 \in Committed : \A c \in Committed :
        (b1 < c /\ c < b2 /\ Altered(K, c) /\ ~ChangedIn(K, c + 1, b2))
            => HistoricalRead(db, b1, K) # HistoricalRead(db, b2, K)

\* C11 amended: the same, when c is the only block in (b1, b2] that changed K.
C11_OnlyChangeBetweenPinsDiffers ==
    \A K \in ChainKeys : \A b1 \in Committed : \A b2 \in Committed : \A c \in Committed :
        (b1 < c /\ c < b2 /\ Altered(K, c) /\ ~ChangedIn(K, c + 1, b2)
              /\ ~ChangedIn(K, b1 + 1, c - 1))
            => HistoricalRead(db, b1, K) # HistoricalRead(db, b2, K)

\* A key set in block 0 and set to another value in block 1, read at 0 and 2.
C11_Witness ==
    \E K \in ChainKeys : \E v1 \in Values : \E v2 \in Values \ {v1} :
        /\ 2 \in Committed
        /\ <<0, K, v1>> \in writes /\ <<1, K, v2>> \in writes /\ ~ChangedIn(K, 2, 2)
        /\ HistoricalRead(db, 0, K) = Ok(Some(v1))
        /\ HistoricalRead(db, 2, K) = Ok(Some(v2))

----------------------------------------------------------------------------
(* Transactions (mdbx/mod.rs:159-172).  tx() begins a read-only            *)
(* transaction: it reads the environment as committed at that moment.      *)
(* tx_mut() begins the read-write transaction: it starts from the          *)
(* committed state and owns the environment's writer lock until it         *)
(* commits or aborts.                                                      *)

tx(env) == env

tx_mut(env) == env

----------------------------------------------------------------------------
(* SpecProv: Historical providers beside the block commits.  A provider is *)
(* HistoricalStateProvider { tx, block_number } (state.rs:200-229); the    *)
(* model also keeps what its reads returned (obs) and, as a ghost, the     *)
(* tables as committed when it was constructed (born).                     *)

ProvSlots == {1}

ProvChanges ==
    {<<"nonce", 1, 0, v>> : v \in Values} \cup {<<"storage", 1, 1, v>> : v \in Values}
        \cup {<<"declare", 1, 0, 0>>}

ProvKeys == {<<"nonce", 1, 0>>, <<"class_hash", 1, 0>>, <<"storage", 1, 1>>, <<"declare", 1, 0>>}

InitProv ==
    /\ ReadIdle /\ DbIdle /\ TableIdle /\ FsIdle /\ OracleIdle /\ WriterIdle
    /\ db = EmptyTables /\ latest = None /\ writes = {} /\ touched = {} /\ ndirect = 0
    /\ provs = [s \in ProvSlots |-> None]

\* HistoricalStateProvider::new(tx, block_number), on a transaction begun now
OpenHistorical(slot, n) ==
    /\ IsNone(provs[slot])
    /\ provs' = [provs EXCEPT
                   ![slot] = Some([tx |-> tx(db), block_number |-> n, obs |-> {}, born |-> db])]
    /\ UNCHANGED <<db, latest, writes, touched, ndirect, readVars, dbVars, tableVars, fsVars, oracleVars, writerVars>>

\* a read that begins a transaction of its own instead of using self.tx
ProviderReadResult_own_tx(slot, K) ==
    LET p == provs[slot][1]
    IN IF K[1] = "declare" THEN HistoricalClass(tx(db), p.block_number, K[2])
       ELSE HistoricalRead(tx(db), p.block_number, K)

\* What a read of K through the provider returns: every method reads self.tx.
ProviderReadResult(slot, K) ==
    LET p == provs[slot][1]
    IN IF K[1] = "declare" THEN HistoricalClass(p.tx, p.block_number, K[2])
       ELSE HistoricalRead(p.tx, p.block_number, K)

ProviderRead(slot, K) ==
    /\ IsSome(provs[slot])
    /\ provs' = [provs EXCEPT ![slot][1].obs = @ \cup {<<K, ProviderReadResult(slot, K)>>}]
    /\ UNCHANGED <<db, latest, writes, touched, ndirect, readVars, dbVars, tableVars, fsVars, oracleVars, writerVars>>

\* the provider, and with it its transaction, is dropped
DropProvider(slot) ==
    /\ IsSome(provs[slot])
    /\ provs' = [provs EXCEPT ![slot] = None]
    /\ UNCHANGED <<db, latest, writes, touched, ndirect, readVars, dbVars, tableVars, fsVars, oracleVars, writerVars>>

NextProv ==
    \/ \E d \in Diffs(ProvChanges, 1) : InsertBlock(d)
    \/ \E s \in ProvSlots, n \in Pins : OpenHistorical(s, n)
    \/ \E s \in ProvSlots, K \in ProvKeys : ProviderRead(s, K)
    \/ \E s \in ProvSlots : DropProvider(s)

SpecProv == InitProv /\ [][NextProv]_vars

----------------------------------------------------------------------------
(* Tries (state.rs:150-198, 336-411).  TrieDbFactory::new(tx) binds to a   *)
(* transaction; latest() gives the tries of the latest state, and          *)
(* historical(block) the tries as of a block, or None when the block was   *)
(* never committed.  A trie is modelled by its content, the entries of the *)
(* state it commits to; root() and multiproof(keys) are functions of that  *)
(* content: the root stands for all of it, a multiproof for the entries of *)
(* the requested keys.                                                     *)

TrieOk(x) == [tag |-> "Ok", err |-> "", val |-> x]

\* Option::expect(msg) on None
Panic(msg) == [tag |-> "Panic", err |-> msg, val |-> {}]

historical(txn, block) == IF block \in txn.Headers THEN Some(block) ELSE None

classes_trie(txn, n) ==
    {<<h, HistoricalCompiledClassHash(txn, n, h).val>> : h \in ClassHashes}

contracts_trie(txn, n) ==
    {<<a, HistoricalNonce(txn, n, a).val, HistoricalClassHashOfContract(txn, n, a).val>> :
        a \in Addresses}

storages_trie(txn, n, address) ==
    {<<k, HistoricalStorage(txn, n, address, k).val>> : k \in StorageKeys}

latest_classes_trie(txn) ==
    {<<h, LatestCompiledClassHash(txn, h).val>> : h \in ClassHashes}

latest_contracts_trie(txn) ==
    {<<a, LatestNonce(txn, a).val, LatestClassHashOfContract(txn, a).val>> : a \in Addresses}

latest_storages_trie(txn, address) ==
    {<<k, LatestStorage(txn, address, k).val>> : k \in StorageKeys}

root(trie) == trie

multiproof(trie, keys) == {e \in trie : e[1] \in keys}

LatestClassesRoot(txn) == TrieOk(root(latest_classes_trie(txn)))

LatestContractsRoot(txn) == TrieOk(root(latest_contracts_trie(txn)))

LatestStorageRoot(txn, contract) == TrieOk(root(latest_storages_trie(txn, contract)))

HistoricalClassMultiproof(txn, block_number, classes) ==
    IF IsNone(historical(txn, block_number)) THEN Panic("should exist")
    ELSE TrieOk(multiproof(classes_trie(txn, block_number), classes))

HistoricalContractMultiproof(txn, block_number, addresses) ==
    IF IsNone(historical(txn, block_number)) THEN Panic("should exist")
    ELSE TrieOk(multiproof(contracts_trie(txn, block_number), addresses))

HistoricalStorageMultiproof(txn, block_number, address, storage_keys) ==
    IF IsNone(historical(txn, block_number)) THEN Panic("should exist")
    ELSE TrieOk(multiproof(storages_trie(txn, block_number, address), storage_keys))

HistoricalClassesRoot(txn, block_number) ==
    IF IsNone(historical(txn, block_number)) THEN Panic("should exist")
    ELSE TrieOk(root(classes_trie(txn, block_number)))

\* a contracts root that reads the latest tries when the block has none
HistoricalContractsRoot_or_latest(txn, block_number) ==
    IF IsNone(historical(txn, block_number)) THEN LatestContractsRoot(txn)
    ELSE TrieOk(root(contracts_trie(txn, block_number)))

HistoricalContractsRoot(txn, block_number) ==
    IF IsNone(historical(txn, block_number)) THEN Panic("should exist")
    ELSE TrieOk(root(contracts_trie(txn, block_number)))

HistoricalStorageRoot(txn, block_number, contract) ==
    IF IsNone(historical(txn, block_number)) THEN Panic("should exist")
    ELSE TrieOk(root(storages_trie(txn, block_number, contract)))

----------------------------------------------------------------------------
(* SpecTrie: Historical providers that access the tries, beside the block  *)
(* commits.  obs keeps what each access returned.                          *)

TrieOps ==
    {"class_multiproof", "contract_multiproof", "storage_multiproof",
     "classes_root", "contracts_root", "storage_root"}

\* What the trie access op returns on a provider over txn pinned at n; the
\* multiproofs ask for class 1, address 1 and storage key 1 of address 1.
TrieAccessResult(txn, n, op) ==
    IF op = "class_multiproof" THEN HistoricalClassMultiproof(txn, n, {1})
    ELSE IF op = "contract_multiproof" THEN HistoricalContractMultiproof(txn, n, {1})
    ELSE IF op = "storage_multiproof" THEN HistoricalStorageMultiproof(txn, n, 1, {1})
    ELSE IF op = "classes_root" THEN HistoricalClassesRoot(txn, n)
    ELSE IF op = "contracts_root" THEN HistoricalContractsRoot(txn, n)
    ELSE HistoricalStorageRoot(txn, n, 1)

ProviderTrieAccess(slot, op) ==
    /\ IsSome(provs[slot])
    /\ provs' = [provs EXCEPT ![slot][1].obs =
                    @ \cup {<<op, TrieAccessResult(provs[slot][1].tx, provs[slot][1].block_number, op)>>}]
    /\ UNCHANGED <<db, latest, writes, touched, ndirect, readVars, dbVars, tableVars, fsVars, oracleVars, writerVars>>

NextTrie ==
    \/ \E d \in Diffs(ProvChanges, 1) : InsertBlock(d)
    \/ \E s \in ProvSlots, n \in Pins : OpenHistorical(s, n)
    \/ \E s \in ProvSlots, op \in TrieOps : ProviderTrieAccess(s, op)
    \/ \E s \in ProvSlots : DropProvider(s)

SpecTrie == InitProv /\ [][NextTrie]_vars

\* The entries of the state as of block n, by the commits made.
CompiledAt(h, n) ==
    IF IsSome(ValueBefore(<<"declare", h, 0>>, n + 1)) THEN Some(CompiledOf(h)) ELSE None

ExpectedTrie(op, n) ==
    LET classes == {<<h, CompiledAt(h, n)>> : h \in ClassHashes}
        contracts == {<<a, ValueBefore(<<"nonce", a, 0>>, n + 1),
                          ValueBefore(<<"class_hash", a, 0>>, n + 1)>> : a \in Addresses}
        storages == {<<k, ValueBefore(<<"storage", 1, k>>, n + 1)>> : k \in StorageKeys}
    IN IF op = "class_multiproof" THEN {e \in classes : e[1] = 1}
       ELSE IF op = "contract_multiproof" THEN {e \in contracts : e[1] = 1}
       ELSE IF op = "storage_multiproof" THEN {e \in storages : e[1] = 1}
       ELSE IF op = "classes_root" THEN classes
       ELSE IF op = "contracts_root" THEN contracts
       ELSE storages

\* C12: a trie access of a Historical provider pinned at N fails when block N
\* was not committed in the provider's transaction, and otherwise returns the
\* root or proof of the state as of N: never that of the latest state or of
\* another block.
C12_TrieAccessOfUnknownBlockFails ==
    \A s \in ProvSlots :
        IsSome(provs[s]) =>
            LET p == provs[s][1]
            IN \A o \in p.obs :
                  IF p.block_number \in p.born.Headers
                  THEN o[2] = TrieOk(ExpectedTrie(o[1], p.block_number))
                  ELSE o[2].tag = "Panic" /\ o[2].err = "should exist"

\* A provider pinned at block 1 and constructed before block 1 was committed:
\* its contracts_root failed, while the latest contracts trie is not empty
\* and block 1 has been committed since.
C12_Witness ==
    \E s \in ProvSlots :
        /\ IsSome(provs[s])
        /\ provs[s][1].block_number = 1
        /\ <<"contracts_root", Panic("should exist")>> \in provs[s][1].obs
        /\ latest = Some(2)
        /\ \E e \in LatestContractsRoot(db).val : e[2] # None

----------------------------------------------------------------------------
(* SpecDb: the environment.  Threads begin, use and end transactions over  *)
(* one single-value table.  A read-only transaction is [view, born]: the   *)
(* table as it reads it and, as a ghost, the table as committed when it    *)
(* began.  A read-write transaction is [view]: its own working copy.       *)

Threads == {1, 2}
Keys == {1, 2}
DbValues == {1, 2}

EmptyTable == [k \in Keys |-> None]

WriterOpen == \E t \in Threads : IsSome(rw[t])

InitDb ==
    /\ ReadIdle /\ ProvIdle /\ TableIdle /\ FsIdle /\ OracleIdle /\ WriterIdle
    /\ kv = EmptyTable
    /\ rw = [t \in Threads |-> None]
    /\ ro = [t \in Threads |-> None]
    /\ waiting = {}
    /\ seen = [t \in Threads |-> None]

\* DbTx::get and a cursor walk from the first entry, over the table a
\* transaction sees
TxGet(view, k) == view[k]

TxWalk(view) ==
    LET present == {k \in Keys : IsSome(view[k])}
        keys == SortedSeq(present)
    IN [i \in 1..Len(keys) |-> <<keys[i], view[keys[i]][1]>>]

ReadResult(view, op, k) == IF op = "get" THEN TxGet(view, k) ELSE TxWalk(view)

\* env.tx() that waits until no write transaction is open
TxBegin_waits_for_writer(t) ==
    /\ IsNone(ro[t]) /\ ~WriterOpen
    /\ ro' = [ro EXCEPT ![t] = Some([view |-> tx(kv), born |-> kv])]
    /\ seen' = [seen EXCEPT ![t] = None]
    /\ UNCHANGED <<kv, rw, waiting, readVars, provVars, tableVars, fsVars, oracleVars, writerVars>>

\* env.tx()
TxBegin(t) ==
    /\ IsNone(ro[t])
    /\ ro' = [ro EXCEPT ![t] = Some([view |-> tx(kv), born |-> kv])]
    /\ seen' = [seen EXCEPT ![t] = None]
    /\ UNCHANGED <<kv, rw, waiting, readVars, provVars, tableVars, fsVars, oracleVars, writerVars>>

\* tx.get(key) or cursor.walk(None) on the read-only transaction of t
RoRead(t, op, k) ==
    /\ IsSome(ro[t])
    /\ seen' = [seen EXCEPT ![t] = Some(<<op, k, ReadResult(ro[t][1].view, op, k)>>)]
    /\ UNCHANGED <<kv, rw, ro, waiting, readVars, provVars, tableVars, fsVars, oracleVars, writerVars>>

\* the read-only transaction is committed or dropped
RoEnd(t) ==
    /\ IsSome(ro[t])
    /\ ro' = [ro EXCEPT ![t] = None]
    /\ seen' = [seen EXCEPT ![t] = None]
    /\ UNCHANGED <<kv, rw, waiting, readVars, provVars, tableVars, fsVars, oracleVars, writerVars>>

\* tx_mut() that hands out a transaction while another one is open
TxMutCall_no_lock(t) ==
    /\ IsNone(rw[t]) /\ t \notin waiting
    /\ rw' = [rw EXCEPT ![t] = Some([view |-> tx_mut(kv)])]
    /\ UNCHANGED <<kv, ro, waiting, seen, readVars, provVars, tableVars, fsVars, oracleVars, writerVars>>

\* env.tx_mut(): returns the transaction, or blocks while a writer is open
TxMutCall(t) ==
    /\ IsNone(rw[t]) /\ t \notin waiting
    /\ IF WriterOpen
       THEN waiting' = waiting \cup {t} /\ rw' = rw
       ELSE waiting' = waiting /\ rw' = [rw EXCEPT ![t] = Some([view |-> tx_mut(kv)])]
    /\ UNCHANGED <<kv, ro, seen, readVars, provVars, tableVars, fsVars, oracleVars, writerVars>>

\* a blocked tx_mut() returns once no write transaction is open
TxMutReturn(t) ==
    /\ t \in waiting /\ ~WriterOpen
    /\ rw' = [rw EXCEPT ![t] = Some([view |-> tx_mut(kv)])]
    /\ waiting' = waiting \ {t}
    /\ UNCHANGED <<kv, ro, seen, readVars, provVars, tableVars, fsVars, oracleVars, writerVars>>

\* tx.put(key, value)
Put(t, k, v) ==
    /\ IsSome(rw[t])
    /\ rw' = [rw EXCEPT ![t][1].view[k] = Some(v)]
    /\ UNCHANGED <<kv, ro, waiting, seen, readVars, provVars, tableVars, fsVars, oracleVars, writerVars>>

\* tx.delete(key, None)
Delete(t, k) ==
    /\ IsSome(rw[t])
    /\ rw' = [rw EXCEPT ![t][1].view[k] = None]
    /\ UNCHANGED <<kv, ro, waiting, seen, readVars, provVars, tableVars, fsVars, oracleVars, writerVars>>

\* a commit that writes through to the transactions that are reading
Commit_into_readers(t) ==
    /\ IsSome(rw[t])
    /\ kv' = rw[t][1].view
    /\ rw' = [rw EXCEPT ![t] = None]
    /\ ro' = [u \in Threads |->
                IF IsSome(ro[u]) THEN Some([ro[u][1] EXCEPT !.view = rw[t][1].view]) ELSE None]
    /\ UNCHANGED <<waiting, seen, readVars, provVars, tableVars, fsVars, oracleVars, writerVars>>

\* tx.commit() of the read-write transaction
Commit(t) ==
    /\ IsSome(rw[t])
    /\ kv' = rw[t][1].view
    /\ rw' = [rw EXCEPT ![t] = None]
    /\ UNCHANGED <<ro, waiting, seen, readVars, provVars, tableVars, fsVars, oracleVars, writerVars>>

\* tx.abort(), or the transaction is dropped
Abort(t) ==
    /\ IsSome(rw[t])
    /\ rw' = [rw EXCEPT ![t] = None]
    /\ UNCHANGED <<kv, ro, waiting, seen, readVars, provVars, tableVars, fsVars, oracleVars, writerVars>>

NextDb ==
    \/ \E t \in Threads : TxBegin(t)
    \/ \E t \in Threads, k \in Keys : RoRead(t, "get", k)
    \/ \E t \in Threads : RoRead(t, "walk", 1)
    \/ \E t \in Threads : RoEnd(t)
    \/ \E t \in Threads : TxMutCall(t)
    \/ \E t \in Threads : TxMutReturn(t)
    \/ \E t \in Threads, k \in Keys, v \in DbValues : Put(t, k, v)
    \/ \E t \in Threads, k \in Keys : Delete(t, k)
    \/ \E t \in Threads : Commit(t)
    \/ \E t \in Threads : Abort(t)

SpecDb == InitDb /\ [][NextDb]_vars

\* C6: what a read-only transaction read is what the table held, committed,
\* when the transaction began, whatever was committed since.
C6_SnapshotIsolation ==
    \A t \in Threads :
        (IsSome(ro[t]) /\ IsSome(seen[t])) =>
            seen[t][1][3] = ReadResult(ro[t][1].born, seen[t][1][1], seen[t][1][2])

\* A reader that began before a commit changed a key, and read the key after.
C6_Witness ==
    \E t \in Threads, k \in Keys :
        /\ IsSome(ro[t]) /\ IsSome(seen[t])
        /\ seen[t][1][1] = "get" /\ seen[t][1][2] = k
        /\ kv[k] # ro[t][1].born[k]
        /\ seen[t][1][3] # kv[k]

\* C7: at most one read-write transaction is open; a tx_mut() yields a
\* transaction only in a step that starts with none open, and a thread that
\* called it while one was open stays blocked.
C7_WriterMutualExclusion ==
    [][/\ Cardinality({t \in Threads : IsSome(rw'[t])}) <= 1
       /\ \A t \in Threads : (IsNone(rw[t]) /\ IsSome(rw'[t])) => ~WriterOpen
       /\ \A t \in waiting' : IsNone(rw'[t])]_vars

\* One thread holds the write transaction while the other is blocked in tx_mut().
C7_Witness ==
    \E t \in Threads, u \in Threads : t # u /\ IsSome(rw[t]) /\ u \in waiting


\* C13: a thread can begin a read-only transaction and read through it
\* whether or not a write transaction is open; a thread can begin a write
\* transaction when none is open, and commit the one it holds, whether or not
\* read-only transactions are open; a thread blocked in tx_mut() can return as
\* soon as no write transaction is open.
C13_ReadersAndWritersDoNotBlock ==
    \A t \in Threads :
        /\ IsNone(ro[t]) => ENABLED TxBegin(t)
        /\ IsSome(ro[t]) => \A k \in Keys : ENABLED RoRead(t, "get", k)
        /\ IsSome(ro[t]) => ENABLED RoRead(t, "walk", 1)
        /\ (IsNone(rw[t]) /\ t \notin waiting /\ ~WriterOpen)
              => ENABLED (TxMutCall(t) /\ IsSome(rw'[t]))
        /\ IsSome(rw[t]) => ENABLED Commit(t)
        /\ (t \in waiting /\ ~WriterOpen) => ENABLED TxMutReturn(t)
        /\ t \in waiting => IsNone(rw[t])

\* A write transaction with changes not yet committed is open on one thread
\* while another thread holds a read-only transaction begun after a commit,
\* has read through it, and a third party could still begin one.
C13_Witness ==
    \E t \in Threads, u \in Threads :
        /\ t # u
        /\ IsSome(rw[t]) /\ rw[t][1].view # kv
        /\ IsSome(ro[u]) /\ IsSome(seen[u]) /\ ro[u][1].born # EmptyTable
        /\ IsNone(ro[t])

----------------------------------------------------------------------------
(* A single-value table used by one thread (mdbx/mod.rs:313-505).  The     *)
(* table is the set of its <<key, value>> entries; a write transaction is  *)
(* [view, ops, cur]: its working copy of the table, as a ghost the last    *)
(* operation it made on each key, and the position of its cursor.          *)

TKeys == 0..2
TValues == {0, 1}

\* The tables: at most one entry for a key.
AllTables ==
    {t \in SUBSET (TKeys \X TValues) : \A e1 \in t : \A e2 \in t : e1[1] = e2[1] => e1 = e2}

NoOps == [k \in TKeys |-> None]

\* DbTx::get and DbTx::entries
get(view, k) ==
    IF \E e \in view : e[1] = k THEN Some((CHOOSE e \in view : e[1] = k)[2]) ELSE None

entries(view) == Cardinality(view)

\* env.tx_mut() and tx.cursor()
BeginWrite ==
    /\ IsNone(wtx)
    /\ wtx' = Some([view |-> tx_mut(tbl), ops |-> NoOps, cur |-> None])
    /\ out' = None
    /\ UNCHANGED <<tbl, done, walker, dup, readVars, provVars, dbVars, fsVars, oracleVars, writerVars>>

\* tx.put(key, value): the entry of the key is replaced
TxPut(k, v) ==
    /\ IsSome(wtx)
    /\ wtx' = Some([wtx[1] EXCEPT !.view = {e \in @ : e[1] # k} \cup {<<k, v>>},
                                  !.ops[k] = Some(<<"put", v>>)])
    /\ out' = None
    /\ UNCHANGED <<tbl, done, walker, dup, readVars, provVars, dbVars, fsVars, oracleVars, writerVars>>

\* tx.delete(key, None)
TxDelete(k) ==
    /\ IsSome(wtx)
    /\ wtx' = Some([wtx[1] EXCEPT !.view = {e \in @ : e[1] # k},
                                  !.ops[k] = Some(<<"delete", 0>>)])
    /\ out' = None
    /\ UNCHANGED <<tbl, done, walker, dup, readVars, provVars, dbVars, fsVars, oracleVars, writerVars>>

\* a commit that keeps the deleted entries
TxCommit_keeps_deleted ==
    /\ IsSome(wtx)
    /\ tbl' = wtx[1].view \cup {e \in tbl : get(wtx[1].view, e[1]) = None}
    /\ done' = Some([ops |-> wtx[1].ops, before |-> tbl])
    /\ wtx' = None
    /\ out' = None
    /\ UNCHANGED <<walker, dup, readVars, provVars, dbVars, fsVars, oracleVars, writerVars>>

\* tx.commit()
TxCommit ==
    /\ IsSome(wtx)
    /\ tbl' = wtx[1].view
    /\ done' = Some([ops |-> wtx[1].ops, before |-> tbl])
    /\ wtx' = None
    /\ out' = None
    /\ UNCHANGED <<walker, dup, readVars, provVars, dbVars, fsVars, oracleVars, writerVars>>

\* the write transaction is dropped without a commit
TxAbort ==
    /\ IsSome(wtx)
    /\ wtx' = None
    /\ out' = None
    /\ UNCHANGED <<tbl, done, walker, dup, readVars, provVars, dbVars, fsVars, oracleVars, writerVars>>

----------------------------------------------------------------------------
(* SpecCommit: write transactions of puts and deletes, committed or not,   *)
(* on a table that starts empty.                                           *)

InitCommit ==
    /\ ReadIdle /\ ProvIdle /\ DbIdle /\ FsIdle /\ OracleIdle /\ WriterIdle
    /\ tbl = {} /\ wtx = None /\ done = None /\ out = None /\ walker = None /\ dup = <<>>

NextCommit ==
    \/ BeginWrite
    \/ \E k \in TKeys, v \in TValues : TxPut(k, v)
    \/ \E k \in TKeys : TxDelete(k)
    \/ TxCommit
    \/ TxAbort

SpecCommit == InitCommit /\ [][NextCommit]_vars

\* C14: since the last commit of a write transaction, a transaction begun now
\* gets Some(v) for every key whose last operation in it was put(k, v) and
\* None for every key whose last operation was delete(k); its entry count is
\* the count before that transaction, plus the keys put that had no entry,
\* minus the keys deleted that had one.
C14_CommitVisibility ==
    IsSome(done) =>
        LET d == done[1]
            now == tx(tbl)
            put == {k \in TKeys : IsSome(d.ops[k]) /\ d.ops[k][1][1] = "put"}
            del == {k \in TKeys : IsSome(d.ops[k]) /\ d.ops[k][1][1] = "delete"}
        IN /\ \A k \in put : get(now, k) = Some(d.ops[k][1][2])
           /\ \A k \in del : get(now, k) = None
           /\ entries(now) = entries(d.before)
                               + Cardinality({k \in put : get(d.before, k) = None})
                               - Cardinality({k \in del : get(d.before, k) # None})

\* The last commit deleted one key that had an entry and did nothing else,
\* and a write transaction with a put not yet committed is open.
C14_Witness ==
    /\ IsSome(done)
    /\ \E k \in TKeys :
          /\ done[1].ops = [NoOps EXCEPT ![k] = Some(<<"delete", 0>>)]
          /\ get(done[1].before, k) # None
          /\ entries(tx(tbl)) = entries(done[1].before) - 1
    /\ IsSome(wtx) /\ wtx[1].view # tbl

----------------------------------------------------------------------------
(* The cursor of a write transaction (mdbx/mod.rs:390-408, 469-505).  out  *)
(* keeps the last cursor call: its arguments, its result, and as a ghost   *)
(* the table and the cursor position the call found.                       *)

\* Encode of a u64 key: its eight bytes, most significant first
RECURSIVE ShiftRightBytes(_, _)
ShiftRightBytes(k, n) == IF n = 0 THEN k ELSE ShiftRightBytes(k \div 256, n - 1)

Encode(k) == [i \in 1..8 |-> ShiftRightBytes(k, 8 - i) % 256]

\* DatabaseError::Write { table, error, key }
DatabaseErrorWrite(table, error, key) ==
    [tag |-> "Err", err |-> "Write", table |-> table, error |-> error, key |-> key]

\* The entry a cursor is at, if it is at one.
current(w) ==
    IF IsNone(w.cur) \/ get(w.view, w.cur[1]) = None THEN None
    ELSE Some(<<w.cur[1], get(w.view, w.cur[1])[1]>>)

\* cursor.set(key): the entry of exactly that key
set(view, k) == IF get(view, k) = None THEN None ELSE Some(<<k, get(view, k)[1]>>)

CursorCall(op, k, v, result) ==
    Some([op |-> op, key |-> k, value |-> v, result |-> result,
          before |-> [view |-> wtx[1].view, cur |-> wtx[1].cur]])

\* an insert that overwrites the entry of an existing key
CursorInsert_overwrites(k, v) ==
    /\ IsSome(wtx)
    /\ wtx' = Some([wtx[1] EXCEPT !.view = {e \in @ : e[1] # k} \cup {<<k, v>>},
                                  !.ops[k] = Some(<<"put", v>>),
                                  !.cur = Some(k)])
    /\ out' = CursorCall("insert", k, v, Ok(None))
    /\ UNCHANGED <<tbl, done, walker, dup, readVars, provVars, dbVars, fsVars, oracleVars, writerVars>>

\* cursor.insert(key, value): MDBX_NOOVERWRITE
CursorInsert(k, v) ==
    /\ IsSome(wtx)
    /\ IF get(wtx[1].view, k) = None
       THEN /\ wtx' = Some([wtx[1] EXCEPT !.view = @ \cup {<<k, v>>},
                                          !.ops[k] = Some(<<"put", v>>),
                                          !.cur = Some(k)])
            /\ out' = CursorCall("insert", k, v, Ok(None))
       ELSE /\ wtx' = wtx
            /\ out' = CursorCall("insert", k, v,
                                 DatabaseErrorWrite("BlockHashes", "KeyExist", Encode(k)))
    /\ UNCHANGED <<tbl, done, walker, dup, readVars, provVars, dbVars, fsVars, oracleVars, writerVars>>

\* an upsert that adds the entry beside the one the key has
CursorUpsert_adds(k, v) ==
    /\ IsSome(wtx)
    /\ wtx' = Some([wtx[1] EXCEPT !.view = @ \cup {<<k, v>>},
                                  !.ops[k] = Some(<<"put", v>>),
                                  !.cur = Some(k)])
    /\ out' = CursorCall("upsert", k, v, Ok(None))
    /\ UNCHANGED <<tbl, done, walker, dup, readVars, provVars, dbVars, fsVars, oracleVars, writerVars>>

\* cursor.upsert(key, value): MDBX_UPSERT, the entry of the key is replaced
CursorUpsert(k, v) ==
    /\ IsSome(wtx)
    /\ wtx' = Some([wtx[1] EXCEPT !.view = {e \in @ : e[1] # k} \cup {<<k, v>>},
                                  !.ops[k] = Some(<<"put", v>>),
                                  !.cur = Some(k)])
    /\ out' = CursorCall("upsert", k, v, Ok(None))
    /\ UNCHANGED <<tbl, done, walker, dup, readVars, provVars, dbVars, fsVars, oracleVars, writerVars>>

\* cursor.set(key): the cursor moves to the entry when there is one
CursorSet(k) ==
    /\ IsSome(wtx)
    /\ wtx' = IF set(wtx[1].view, k) = None THEN wtx
              ELSE Some([wtx[1] EXCEPT !.cur = Some(k)])
    /\ out' = CursorCall("set", k, 0, Ok(set(wtx[1].view, k)))
    /\ UNCHANGED <<tbl, done, walker, dup, readVars, provVars, dbVars, fsVars, oracleVars, writerVars>>

----------------------------------------------------------------------------
(* SpecCursor: cursor calls of one write transaction at a time, on a table *)
(* that starts with any content.                                           *)

InitCursor ==
    /\ ReadIdle /\ ProvIdle /\ DbIdle /\ FsIdle /\ OracleIdle /\ WriterIdle
    /\ tbl \in AllTables
    /\ wtx = None /\ done = None /\ out = None /\ walker = None /\ dup = <<>>

NextCursor ==
    \/ BeginWrite
    \/ \E k \in TKeys, v \in TValues : CursorInsert(k, v)
    \/ \E k \in TKeys, v \in TValues : CursorUpsert(k, v)
    \/ \E k \in TKeys : CursorSet(k)
    \/ \E k \in TKeys : TxDelete(k)
    \/ TxAbort

SpecCursor == InitCursor /\ [][NextCursor]_vars

C16_UpsertOverwrites ==
    (IsSome(out) /\ out[1].op = "upsert") =>
        LET o == out[1]
            w == wtx[1]
        IN /\ o.result = Ok(None)
           /\ set(w.view, o.key) = Some(<<o.key, o.value>>)
           /\ Cardinality({e \in w.view : e[1] = o.key}) = 1
           /\ {e \in w.view : e[1] # o.key} = {e \in o.before.view : e[1] # o.key}
           /\ {e \in w.view : e[1] # o.key} \cup {<<o.key, o.value>>} = w.view

\* An upsert of a key that had an entry with another value.
C16_Witness ==
    /\ IsSome(out) /\ out[1].op = "upsert"
    /\ get(out[1].before.view, out[1].key) \notin {None, Some(out[1].value)}
    /\ entries(wtx[1].view) = entries(out[1].before.view)
    /\ entries(wtx[1].view) >= 2

----------------------------------------------------------------------------
(* Walker (mdbx/mod.rs:425-467, 499-503).  A cursor is at no entry yet     *)
(* (None), at the entry of a key, or past the last entry.  A walker is     *)
(* [view, arg, start, cur, yielded, ended, prev]: the table its read       *)
(* transaction sees, the start key it was given, the entry it holds to     *)
(* yield first, the position of its cursor, what its next() calls have     *)
(* returned so far and how many of them returned None; prev is a ghost,    *)
(* the start key and the yield of the walker before it.                    *)

MaxEnded == 2               \* next() calls that returned None

PastEnd == SetMax(TKeys) + 1

entry(view, k) == <<k, get(view, k)[1]>>

\* cursor.first(), cursor.seek(key) and cursor.next(): the entry found, if
\* any, and the new position of the cursor
first(view) ==
    LET ks == {e[1] : e \in view}
    IN IF ks = {} THEN [found |-> None, cur |-> None]
       ELSE LET k == CHOOSE x \in ks : \A y \in ks : x <= y
            IN [found |-> Some(entry(view, k)), cur |-> Some(k)]

seek(view, key) ==
    LET ks == {e[1] : e \in {x \in view : x[1] >= key}}
    IN IF ks = {} THEN [found |-> None, cur |-> Some(PastEnd)]
       ELSE LET k == CHOOSE x \in ks : \A y \in ks : x <= y
            IN [found |-> Some(entry(view, k)), cur |-> Some(k)]

next(view, cur) ==
    IF IsNone(cur) THEN first(view)
    ELSE LET ks == {e[1] : e \in {x \in view : x[1] > cur[1]}}
         IN IF ks = {} THEN [found |-> None, cur |-> cur]
            ELSE LET k == CHOOSE x \in ks : \A y \in ks : x <= y
                 IN [found |-> Some(entry(view, k)), cur |-> Some(k)]

\* The yield of the walker that ended, kept when a new one is made.
Previous ==
    IF IsSome(walker) /\ walker[1].ended > 0
    THEN Some([arg |-> walker[1].arg, yielded |-> walker[1].yielded])
    ELSE None

NewWalker(view, arg, start, cur) ==
    Some([view |-> view, arg |-> arg, start |-> start, cur |-> cur,
          yielded |-> <<>>, ended |-> 0, prev |-> Previous])

\* a walk that starts from the first entry whatever the start key
walk_from_first(view, start_key) ==
    LET s == first(view)
    IN NewWalker(view, start_key, s.found, s.cur)

\* cursor.walk(start_key) on a cursor just opened
walk(view, start_key) ==
    LET s == IF IsSome(start_key) THEN seek(view, start_key[1]) ELSE first(view)
    IN NewWalker(view, start_key, s.found, s.cur)

\* env.tx(), tx.cursor() and cursor.walk(start_key)
Walk(start_key) ==
    /\ walker' = walk(tx(tbl), start_key)
    /\ UNCHANGED <<tbl, wtx, done, out, dup, readVars, provVars, dbVars, fsVars, oracleVars, writerVars>>

\* env.tx(), tx.cursor() and Walker::new(&mut cursor, None)
WalkerNew ==
    /\ walker' = NewWalker(tx(tbl), None, None, None)
    /\ UNCHANGED <<tbl, wtx, done, out, dup, readVars, provVars, dbVars, fsVars, oracleVars, writerVars>>

\* walker.next(): the entry held to start with, then cursor.next()
WalkerNext ==
    /\ IsSome(walker)
    /\ walker[1].ended < MaxEnded
    /\ LET w == walker[1]
           n == next(w.view, w.cur)
       IN walker' =
            IF IsSome(w.start)
            THEN Some([w EXCEPT !.start = None, !.yielded = Append(@, w.start[1])])
            ELSE IF IsSome(n.found)
                 THEN Some([w EXCEPT !.cur = n.cur, !.yielded = Append(@, n.found[1])])
                 ELSE Some([w EXCEPT !.cur = n.cur, !.ended = @ + 1])
    /\ UNCHANGED <<tbl, wtx, done, out, dup, readVars, provVars, dbVars, fsVars, oracleVars, writerVars>>

----------------------------------------------------------------------------
(* SpecWalk: walkers over a table with any content.                        *)

InitWalk ==
    /\ ReadIdle /\ ProvIdle /\ DbIdle /\ FsIdle /\ OracleIdle /\ WriterIdle
    /\ tbl \in AllTables
    /\ wtx = None /\ done = None /\ out = None /\ walker = None /\ dup = <<>>

NextWalk ==
    \/ \E s \in {None} \cup {Some(k) : k \in TKeys \cup {PastEnd}} : Walk(s)
    \/ WalkerNew
    \/ WalkerNext

SpecWalk == InitWalk /\ [][NextWalk]_vars

\* The entries with key >= the start key (all of them without one), by
\* ascending key.
WalkOf(view, arg) ==
    LET ks == SortedSeq({e[1] : e \in {x \in view : IsNone(arg) \/ x[1] >= arg[1]}})
    IN [i \in 1..Len(ks) |-> entry(view, ks[i])]

\* C18: what a walker has yielded is the start of the entries with key >= its
\* start key in ascending key order, each once; when a next() has returned
\* None it is all of them, no later next() yields an entry, and it is what
\* the walker before it, made with the same start key, yielded.
C18_WalkerYieldsFromStartKey ==
    IsSome(walker) =>
        LET w == walker[1]
        IN /\ IsPrefix(w.yielded, WalkOf(tbl, w.arg))
           /\ w.ended > 0 => w.yielded = WalkOf(tbl, w.arg)
           /\ (w.ended > 0 /\ IsSome(w.prev) /\ w.prev[1].arg = w.arg)
                 => w.prev[1].yielded = w.yielded

\* A second walker from a start key that has no entry, over a table with an
\* entry below it and one above: both yielded that one and then None, the
\* second one twice.
C18_Witness ==
    /\ IsSome(walker)
    /\ walker[1].arg = Some(1)
    /\ get(tbl, 0) # None /\ get(tbl, 1) = None /\ get(tbl, 2) # None
    /\ walker[1].ended = 2
    /\ Len(walker[1].yielded) = 1
    /\ IsSome(walker[1].prev) /\ walker[1].prev[1].arg = Some(1)

----------------------------------------------------------------------------
(* A dup-sorted table (mdbx/mod.rs:410-422, 507-549): tables::ContractStorage, *)
(* rows <<key, subkey, value>>.  dup is [rows, puts, cur, yielded,         *)
(* upserts]: the                                                           *)
(* rows as the table stores them, one after the other; as a ghost the rows *)
(* in the order they were put; the cursor, the index of the row it is at   *)
(* (0 before any); and the rows the cursor has returned since it was       *)
(* opened or sought; and whether every row was stored by cursor.upsert.    *)

MaxDupPuts == 3             \* puts into the dup-sorted table

DKeys == {1, 2}
DSubkeys == 0..2
DValues == {1, 2}

RowsOf(s) == {s[i] : i \in 1..Len(s)}

\* a put that stores the row after the rows the table has
put_dup_appends(rows, r) == IF r \in RowsOf(rows) THEN rows ELSE Append(rows, r)

\* tx.put on a dup-sorted table: the row goes before the first greater row;
\* a row the table has is not stored twice
put_dup(rows, r) ==
    IF r \in RowsOf(rows) THEN rows
    ELSE LET n == Cardinality({i \in 1..Len(rows) : LexLess(rows[i], r)})
         IN SubSeq(rows, 1, n) \o <<r>> \o SubSeq(rows, n + 1, Len(rows))

\* The index of a row in the table.
IndexOf(rows, r) == CHOOSE i \in 1..Len(rows) : rows[i] = r

\* env.update(|tx| tx.put::<ContractStorage>(key, StorageEntry { key, value }))
DupPut(k, s, v) ==
    /\ Len(dup.puts) < MaxDupPuts
    /\ dup' = [rows |-> put_dup(dup.rows, <<k, s, v>>),
               puts |-> Append(dup.puts, <<k, s, v>>),
               cur |-> 0, yielded |-> <<>>, upserts |-> FALSE]
    /\ out' = None
    /\ UNCHANGED <<tbl, wtx, done, walker, readVars, provVars, dbVars, fsVars, oracleVars, writerVars>>

\* An upsert that overwrites the row the key has with the same subkey.
upsert_replaces(rows, r) ==
    put_dup(SelectSeq(rows, LAMBDA x : ~(x[1] = r[1] /\ x[2] = r[2])), r)

\* cursor.upsert(key, entry) on a dup-sorted table: the entry becomes one
\* more duplicate of the key, at its place in the order.
upsert_dup(rows, r) == put_dup(rows, r)

\* tx.cursor::<ContractStorage>() of a write transaction and
\* dup_cursor.upsert(key, StorageEntry { key: subkey, value }): the cursor is
\* left at the entry.
DupUpsert(k, s, v) ==
    /\ Len(dup.puts) < MaxDupPuts
    /\ LET rows == upsert_dup(dup.rows, <<k, s, v>>)
       IN dup' = [rows |-> rows,
                  puts |-> Append(dup.puts, <<k, s, v>>),
                  cur |-> IF <<k, s, v>> \in RowsOf(rows) THEN IndexOf(rows, <<k, s, v>>) ELSE 0,
                  yielded |-> <<>>, upserts |-> dup.upserts]
    /\ out' = None
    /\ UNCHANGED <<tbl, wtx, done, walker, readVars, provVars, dbVars, fsVars, oracleVars, writerVars>>

\* env.tx() and tx.cursor(): a cursor at no row yet
DupCursor ==
    /\ dup' = [dup EXCEPT !.cur = 0, !.yielded = <<>>]
    /\ out' = None
    /\ UNCHANGED <<tbl, wtx, done, walker, readVars, provVars, dbVars, fsVars, oracleVars, writerVars>>

\* cursor.seek_by_key_subkey(key, subkey), the start of walk_dup(key, subkey)
DupSeek(k, s) ==
    LET found == seek_by_key_subkey(RowsOf(dup.rows), k, <<s>>)
    IN /\ dup' = IF IsSome(found)
                 THEN [dup EXCEPT !.cur = IndexOf(dup.rows, found[1]),
                                  !.yielded = <<found[1]>>]
                 ELSE [dup EXCEPT !.yielded = <<>>]
       /\ out' = Some([op |-> "seek_by_key_subkey", key |-> k, subkey |-> s,
                       result |-> found])
       /\ UNCHANGED <<tbl, wtx, done, walker, readVars, provVars, dbVars, fsVars, oracleVars, writerVars>>

\* cursor.next_dup_val(), the step of walk_dup: the first row of the table on
\* a cursor at no row yet, else the next row when it has the same key
NextDupVal ==
    LET c == dup.cur
        found == IF c = 0
                 THEN IF Len(dup.rows) = 0 THEN None ELSE Some(dup.rows[1])
                 ELSE IF c < Len(dup.rows) /\ dup.rows[c + 1][1] = dup.rows[c][1]
                      THEN Some(dup.rows[c + 1])
                      ELSE None
    IN /\ dup' = IF IsSome(found)
                 THEN [dup EXCEPT !.cur = c + 1, !.yielded = Append(@, found[1])]
                 ELSE dup
       /\ out' = Some([op |-> "next_dup_val", key |-> 0, subkey |-> 0, result |-> found])
       /\ UNCHANGED <<tbl, wtx, done, walker, readVars, provVars, dbVars, fsVars, oracleVars, writerVars>>

----------------------------------------------------------------------------
(* SpecDup: puts into a dup-sorted table that starts empty, in any order,  *)
(* and cursors over it.                                                    *)

InitDup ==
    /\ ReadIdle /\ ProvIdle /\ DbIdle /\ FsIdle /\ OracleIdle /\ WriterIdle
    /\ tbl = <<>> /\ wtx = None /\ done = None /\ out = None /\ walker = None
    /\ dup = [rows |-> <<>>, puts |-> <<>>, cur |-> 0, yielded |-> <<>>, upserts |-> TRUE]

NextDup ==
    \/ \E k \in DKeys, s \in DSubkeys, v \in DValues : DupPut(k, s, v)
    \/ \E k \in DKeys, s \in DSubkeys, v \in DValues : DupUpsert(k, s, v)
    \/ DupCursor
    \/ \E k \in DKeys, s \in DSubkeys : DupSeek(k, s)
    \/ NextDupVal

SpecDup == InitDup /\ [][NextDup]_vars

\* The rows put under key k with subkey >= s, by ascending subkey and value.
RECURSIVE SortedRows(_)
SortedRows(S) ==
    IF S = {} THEN <<>>
    ELSE LET m == CHOOSE x \in S : \A y \in S : LexLeq(x, y)
         IN <<m>> \o SortedRows(S \ {m})

GroupFrom(k, s) == SortedRows({r \in RowsOf(dup.puts) : r[1] = k /\ r[2] >= s})

\* C17: whatever the order of the puts, seek_by_key_subkey(k, s) returns the
\* first row of k with subkey >= s, None when k has none; and the rows a
\* cursor returns by next_dup_val, from the row it was sought to or from the
\* first row of the table, are rows of one key by ascending subkey, each
\* once, and all the rows of that key from there on once next_dup_val has
\* returned None.
C17_DupSortedOrder ==
    /\ (IsSome(out) /\ out[1].op = "seek_by_key_subkey") =>
          out[1].result = (IF GroupFrom(out[1].key, out[1].subkey) = <<>> THEN None
                           ELSE Some(GroupFrom(out[1].key, out[1].subkey)[1]))
    /\ dup.yielded # <<>> =>
          LET run == SelectSeq(GroupFrom(dup.yielded[1][1], 0),
                               LAMBDA r : LexLeq(dup.yielded[1], r))
          IN /\ IsPrefix(dup.yielded, run)
             /\ (IsSome(out) /\ out[1].op = "next_dup_val" /\ IsNone(out[1].result))
                   => dup.yielded = run
    /\ (dup.cur = 1 /\ Len(dup.yielded) = 1 /\ IsSome(out) /\ out[1].op = "next_dup_val"
          /\ IsSome(out[1].result))
          => dup.yielded[1] = SortedRows(RowsOf(dup.puts))[1]

\* The puts of the test: subkeys 0, 2, 1 under one key; a cursor sought to
\* subkey 1 returned the rows of subkeys 1 and 2 and then None.
C17_Witness ==
    /\ Len(dup.puts) = 3
    /\ \E k \in DKeys :
          /\ dup.puts[1][1] = k /\ dup.puts[2][1] = k /\ dup.puts[3][1] = k
          /\ dup.puts[1][2] = 0 /\ dup.puts[2][2] = 2 /\ dup.puts[3][2] = 1
          /\ dup.yielded = <<dup.puts[3], dup.puts[2]>>
    /\ IsSome(out) /\ out[1].op = "next_dup_val" /\ IsNone(out[1].result)

\* The duplicates stored under key k with subkey s, by ascending value.
SameSubkey(k, s) == SortedRows({r \in RowsOf(dup.rows) : r[1] = k /\ r[2] = s})

----------------------------------------------------------------------------
(* The database directory and its version stamp: crates/storage/db/src/    *)
(* version.rs and the open operations of crates/storage/db/src/lib.rs.     *)
(*                                                                         *)
(* dir is the directory a path names: whether it exists, the content of    *)
(* its db.version file (None when there is no such file, else the bytes),  *)
(* whether that file is read-only, whether the engine's data files and the *)
(* default tables are there, and the rows committed to the tables (data).  *)
(* handle is the log of the open calls                                     *)
(* made on the path: the entry point, the directory before and after the   *)
(* call, and the anyhow::Result<Db> the call returned.                     *)

MaxOpens == 2

CURRENT_DB_VERSION == 7

\* The stamps a directory may start with.
Stamps == {4, 5, 6, 7, 8, 99, 256}

\* version.0.to_be_bytes()
to_be_bytes(v) == [i \in 1..4 |-> ShiftRightBytes(v, 4 - i) % 256]

\* u32::from_be_bytes(bytes)
from_be_bytes(b) == ((b[1] * 256 + b[2]) * 256 + b[3]) * 256 + b[4]

\* Contents of a version file that are not four bytes long.
Malformed == {<<>>, <<0, 0, 7>>, <<0, 0, 0, 0, 7>>}

\* Result<Version, DatabaseVersionError> and anyhow::Result<Db>. A handle
\* is Ok with its version; an environment is open exactly while a handle
\* holds it.
DbOk(version) ==
    [tag |-> "Ok", err |-> "", version |-> version, expected |-> 0, found |-> 0]
DbErr(name) ==
    [tag |-> "Err", err |-> name, version |-> 0, expected |-> 0, found |-> 0]
MismatchVersion(expected, found) ==
    [tag |-> "Err", err |-> "MismatchVersion", version |-> 0,
     expected |-> expected, found |-> found]

\* The rows a caller commits through a handle.
Rows == {1, 2}

NoDir == [exists |-> FALSE, file |-> None, readonly |-> FALSE,
          env |-> FALSE, tables |-> FALSE, data |-> {}]

\* True when the path does not exist or the directory holds no entry.
is_database_empty(d) == ~d.exists \/ (IsNone(d.file) /\ ~d.env)

\* A window that holds the current version only.
is_block_compatible_version_current_only(version) == version = CURRENT_DB_VERSION

is_block_compatible_version(version) == version \in 5..CURRENT_DB_VERSION

\* get_db_version reading the first four bytes of a longer file.
get_db_version_first_four(d) ==
    IF ~d.exists \/ IsNone(d.file) THEN DbErr("FileNotFound")
    ELSE IF Len(d.file[1]) < 4 THEN DbErr("MalformedContent")
    ELSE DbOk(from_be_bytes(d.file[1]))

get_db_version(d) ==
    IF ~d.exists \/ IsNone(d.file) THEN DbErr("FileNotFound")
    ELSE IF Len(d.file[1]) # 4 THEN DbErr("MalformedContent")
    ELSE DbOk(from_be_bytes(d.file[1]))

\* create_db_version_file without set_readonly(true).
create_db_version_file_writable(d, version) ==
    [d EXCEPT !.file = Some(to_be_bytes(version))]

\* The directory after create_db_version_file(path, version), which
\* returns Ok(version): only called where no version file exists.
create_db_version_file(d, version) ==
    [d EXCEPT !.file = Some(to_be_bytes(version)), !.readonly = TRUE]

\* fs::create_dir_all(path)
create_dir_all(d) == [d EXCEPT !.exists = TRUE]

\* DbEnvBuilder::build: the outcomes of opening the engine's environment
\* at the path. Existing data files are opened. Without them a read-write
\* open creates them in an existing directory, and when the directory is
\* missing the engine either creates it or fails; a read-only open has
\* nothing to open and fails.
build(d, write) ==
    IF d.exists /\ d.env THEN {[ok |-> TRUE, dir |-> d]}
    ELSE IF ~write THEN {[ok |-> FALSE, dir |-> d]}
    ELSE IF d.exists THEN {[ok |-> TRUE, dir |-> [d EXCEPT !.env = TRUE]]}
    ELSE {[ok |-> TRUE, dir |-> [d EXCEPT !.exists = TRUE, !.env = TRUE]],
          [ok |-> FALSE, dir |-> d]}

\* create_default_tables creating every table anew.
create_default_tables_fresh(d) == [d EXCEPT !.tables = TRUE, !.data = {}]

\* env.create_default_tables(): creates the tables that are not there yet
\* and commits; the rows of the tables that are there stay.
create_default_tables(d) == [d EXCEPT !.tables = TRUE]

\* Db::new with the window check left out: every stamp that can be read
\* is accepted.
Db_new_any_version(d) ==
    LET stamped ==
            IF is_database_empty(d)
            THEN [dir |-> create_db_version_file(create_dir_all(d), CURRENT_DB_VERSION),
                  version |-> DbOk(CURRENT_DB_VERSION)]
            ELSE LET got == get_db_version(d)
                 IN IF got.tag = "Ok" THEN [dir |-> d, version |-> got]
                    ELSE IF got.err = "FileNotFound"
                    THEN [dir |-> create_db_version_file(d, CURRENT_DB_VERSION),
                          version |-> DbOk(CURRENT_DB_VERSION)]
                    ELSE [dir |-> d, version |-> got]
    IN IF stamped.version.tag = "Err"
       THEN {[dir |-> stamped.dir, result |-> stamped.version]}
       ELSE {IF b.ok THEN [dir |-> create_default_tables(b.dir), result |-> stamped.version]
                     ELSE [dir |-> b.dir, result |-> DbErr("OpenEnv")]
             : b \in build(stamped.dir, TRUE)}

\* Db::new(path): the outcomes, each the directory after the call and the
\* result. The version is settled first; the environment is built and the
\* default tables created only when that did not return an error.
Db_new(d) ==
    LET stamped ==
            IF is_database_empty(d)
            THEN [dir |-> create_db_version_file(create_dir_all(d), CURRENT_DB_VERSION),
                  version |-> DbOk(CURRENT_DB_VERSION)]
            ELSE LET got == get_db_version(d)
                 IN IF got.tag = "Ok" /\ got.version # CURRENT_DB_VERSION
                    THEN IF ~is_block_compatible_version(got.version)
                         THEN [dir |-> d,
                               version |-> MismatchVersion(CURRENT_DB_VERSION, got.version)]
                         ELSE [dir |-> d, version |-> got]
                    ELSE IF got.tag = "Ok" THEN [dir |-> d, version |-> got]
                    ELSE IF got.err = "FileNotFound"
                    THEN [dir |-> create_db_version_file(d, CURRENT_DB_VERSION),
                          version |-> DbOk(CURRENT_DB_VERSION)]
                    ELSE [dir |-> d, version |-> got]
    IN IF stamped.version.tag = "Err"
       THEN {[dir |-> stamped.dir, result |-> stamped.version]}
       ELSE {IF b.ok THEN [dir |-> create_default_tables(b.dir), result |-> stamped.version]
                     ELSE [dir |-> b.dir, result |-> DbErr("OpenEnv")]
             : b \in build(stamped.dir, TRUE)}

\* Db::open_inner(path, read_only): the environment is built first, then
\* the version is read and returned with the handle as it is.
open_inner(d, read_only) ==
    {IF ~b.ok THEN [dir |-> b.dir, result |-> DbErr("OpenEnv")]
     ELSE [dir |-> b.dir, result |-> get_db_version(b.dir)]
     : b \in build(d, ~read_only)}

\* Db::require_migration
require_migration(h) == h.version # CURRENT_DB_VERSION

OpenCall(point, outcome) ==
    /\ Len(handle) < MaxOpens
    /\ dir' = outcome.dir
    /\ handle' = Append(handle, [entry |-> point, before |-> dir, after |-> outcome.dir,
                                 result |-> outcome.result])
    /\ UNCHANGED <<refs, readVars, provVars, dbVars, tableVars, oracleVars, writerVars>>

DbNew == \E o \in Db_new(dir) : OpenCall("new", o)

\* db.update(|tx| tx.put(..)) through a handle opened for writing: the row
\* is committed to the environment of the directory.
DbUpdate(x) ==
    /\ \E i \in 1..Len(handle) :
          handle[i].result.tag = "Ok" /\ handle[i].entry # "open_ro"
    /\ x \notin dir.data
    /\ dir' = [dir EXCEPT !.data = @ \cup {x}]
    /\ UNCHANGED <<handle, refs, readVars, provVars, dbVars, tableVars, oracleVars, writerVars>>

\* Db::open(path)
DbOpen == \E o \in open_inner(dir, FALSE) : OpenCall("open", o)

\* Db::open_ro(path)
DbOpenRo == \E o \in open_inner(dir, TRUE) : OpenCall("open_ro", o)

----------------------------------------------------------------------------
(* SpecOpen: open calls on one path, whose directory starts missing,       *)
(* empty, or as some earlier run or some other tool left it.               *)

InitOpen ==
    /\ ReadIdle /\ ProvIdle /\ DbIdle /\ TableIdle /\ OracleIdle /\ WriterIdle
    /\ handle = <<>> /\ refs = <<>>
    /\ dir \in {NoDir} \cup
          {[exists |-> TRUE, file |-> f, readonly |-> r, env |-> e, tables |-> e,
            data |-> x] :
              f \in {None} \cup {Some(to_be_bytes(v)) : v \in Stamps}
                           \cup {Some(m) : m \in Malformed},
              r \in BOOLEAN, e \in BOOLEAN, x \in SUBSET Rows}
    /\ IsNone(dir.file) => ~dir.readonly
    /\ ~dir.env => dir.data = {}

NextOpen ==
    \/ DbNew
    \/ DbOpen
    \/ DbOpenRo
    \/ \E x \in Rows : DbUpdate(x)

SpecOpen == InitOpen /\ [][NextOpen]_vars

\* The stamp the call found: the version its directory held before it.
StampBefore(c) == get_db_version(c.before)

OutsideWindow(c) ==
    /\ StampBefore(c).tag = "Ok"
    /\ StampBefore(c).version \notin 5..7

\* C19: every handle an open operation returned has a version in [5, 7],
\* and every open call, through Db::new, Db::open or Db::open_ro, on a
\* directory whose stamp is outside [5, 7] failed with MismatchVersion.
C19_HandlesInsideWindow ==
    \A i \in 1..Len(handle) :
        /\ handle[i].result.tag = "Ok" => handle[i].result.version \in 5..7
        /\ OutsideWindow(handle[i]) =>
              /\ handle[i].result.tag = "Err"
              /\ handle[i].result.err = "MismatchVersion"

\* C20: Db::new on a directory whose version file holds a value outside
\* [5, 7] fails with MismatchVersion{expected: 7, found: that value}, and
\* leaves the directory as it was: the version file, the engine's data
\* files and the tables.
C20_NewRejectsOutsideWindow ==
    \A i \in 1..Len(handle) :
        (handle[i].entry = "new" /\ OutsideWindow(handle[i])) =>
            /\ handle[i].result = MismatchVersion(7, StampBefore(handle[i]).version)
            /\ handle[i].after = handle[i].before

\* The test's case: Db::new on a directory that holds only a version file
\* with 99 returned the mismatch of 7 and 99.
C20_Witness ==
    /\ Len(handle) >= 1
    /\ handle[1].entry = "new"
    /\ handle[1].before.file = Some(<<0, 0, 0, 99>>)
    /\ ~handle[1].before.env
    /\ handle[1].result = MismatchVersion(7, 99)
    /\ ~dir.env /\ ~dir.tables

\* C21: Db::new on a directory whose version file holds 5 or 6 succeeds,
\* leaves the file as it was, and the handle has the stored version; and
\* on every handle any open call returned, require_migration() is true
\* exactly when the handle's version is not 7.
C21_NewKeepsCompatibleStamp ==
    \A i \in 1..Len(handle) :
        /\ (/\ handle[i].entry = "new"
            /\ StampBefore(handle[i]).tag = "Ok"
            /\ StampBefore(handle[i]).version \in {5, 6}) =>
              /\ handle[i].result = DbOk(StampBefore(handle[i]).version)
              /\ handle[i].after.file = handle[i].before.file
              /\ handle[i].after.readonly = handle[i].before.readonly
        /\ handle[i].result.tag = "Ok" =>
              (require_migration(handle[i].result) <=> handle[i].result.version # 7)

\* Db::new on a directory stamped 6 returned a handle of version 6 that
\* requires migration.
C21_Witness ==
    /\ Len(handle) >= 1
    /\ handle[1].entry = "new"
    /\ handle[1].before.file = Some(<<0, 0, 0, 6>>)
    /\ handle[1].result = DbOk(6)
    /\ require_migration(handle[1].result)
    /\ dir.file = Some(<<0, 0, 0, 6>>)

\* C22: Db::new on an empty directory (or a path that does not exist yet)
\* leaves a db.version file holding the four bytes 0, 0, 0, 7, read-only,
\* and returns a handle of version 7: get_db_version on the directory
\* returns 7 and require_migration() is false.
C22_NewStampsEmptyDirectory ==
    \A i \in 1..Len(handle) :
        (handle[i].entry = "new" /\ is_database_empty(handle[i].before)) =>
            /\ handle[i].after.file = Some(<<0, 0, 0, 7>>)
            /\ handle[i].after.readonly
            /\ handle[i].result = DbOk(7)
            /\ get_db_version(handle[i].after) = DbOk(7)
            /\ ~require_migration(handle[i].result)

\* Db::new was called on a directory that existed and held nothing, and
\* the directory now holds the stamp, the data files and the tables.
C22_Witness ==
    /\ Len(handle) = 1
    /\ handle[1].entry = "new"
    /\ handle[1].before = [NoDir EXCEPT !.exists = TRUE]
    /\ handle[1].result = DbOk(7)
    /\ dir = [exists |-> TRUE, file |-> Some(<<0, 0, 0, 7>>), readonly |-> TRUE,
              env |-> TRUE, tables |-> TRUE, data |-> {}]

\* C23: an open call, through Db::new, Db::open or Db::open_ro, on a
\* database directory that has its data files and no version file writes
\* the stamp 7 and returns a handle of version 7.
C23_MissingStampSelfHeals ==
    \A i \in 1..Len(handle) :
        (/\ handle[i].before.exists /\ handle[i].before.env
         /\ IsNone(handle[i].before.file)) =>
            /\ handle[i].result = DbOk(7)
            /\ handle[i].after.file = Some(<<0, 0, 0, 7>>)

\* C24: when the version file exists and is not exactly four bytes long,
\* get_db_version returns MalformedContent, Db::new fails with that error,
\* and the directory, the file included, is left as it was.
C24_MalformedStampFailsNew ==
    \A i \in 1..Len(handle) :
        (/\ handle[i].entry = "new"
         /\ handle[i].before.exists
         /\ IsSome(handle[i].before.file)
         /\ Len(handle[i].before.file[1]) # 4) =>
            /\ get_db_version(handle[i].before) = DbErr("MalformedContent")
            /\ handle[i].result = DbErr("MalformedContent")
            /\ handle[i].after = handle[i].before

\* Db::new failed on a version file of three bytes and on one of five.
C24_Witness ==
    /\ Len(handle) = 2
    /\ handle[1].entry = "new" /\ handle[2].entry = "new"
    /\ handle[1].before.file \in {Some(<<0, 0, 7>>), Some(<<0, 0, 0, 0, 7>>)}
    /\ handle[2].result = DbErr("MalformedContent")
    /\ dir = handle[1].before

\* C25: of two Db::new calls in succession on the directory, the first
\* having returned a handle, the second returns the same version; it
\* leaves the version file as it found it, and the rows committed before
\* it, through the first handle or earlier, are all there after it.
C25_NewTwice ==
    \A i \in 1..Len(handle) - 1 :
        (/\ handle[i].entry = "new" /\ handle[i + 1].entry = "new"
         /\ handle[i].result.tag = "Ok") =>
            /\ handle[i + 1].result = handle[i].result
            /\ handle[i + 1].before.file = handle[i].after.file
            /\ handle[i + 1].after.file = handle[i + 1].before.file
            /\ handle[i + 1].after.readonly = handle[i + 1].before.readonly
            /\ handle[i].after.data \subseteq handle[i + 1].before.data
            /\ handle[i + 1].after.data = handle[i + 1].before.data

\* Db::new on an empty directory, a row committed through the handle,
\* Db::new again: version 7 both times and the row is there.
C25_Witness ==
    /\ Len(handle) = 2
    /\ handle[1].entry = "new" /\ handle[2].entry = "new"
    /\ is_database_empty(handle[1].before)
    /\ handle[1].result = DbOk(7) /\ handle[2].result = DbOk(7)
    /\ handle[1].after.data = {}
    /\ handle[2].before.data = {1}
    /\ dir.data = {1}

----------------------------------------------------------------------------
(* The in-memory database: Db::in_memory of crates/storage/db/src/lib.rs.  *)
(* Db is Clone and holds the environment in an Arc (DbEnv.inner): the      *)
(* environment lives until the last handle is dropped.                     *)

MaxHandles == 5

\* tempfile::Builder::new().keep(keep).tempdir(): a new empty directory.
tempdir == [NoDir EXCEPT !.exists = TRUE]

\* Dropping the TempDir value: the directory is removed unless it is kept.
drop_tempdir(d, keep) == IF keep THEN d ELSE NoDir

\* Dropping the last Arc<DbEnvInner>: the fields are dropped, which closes
\* the environment and frees the path; the directory is not touched.
drop_DbEnvInner(d) == d

Alive == {h \in 1..Len(refs) : refs[h] = "alive"}

\* Db::in_memory(): the environment is built read-write in a kept
\* temporary directory, the default tables are created, and the TempDir
\* goes out of scope when the function returns. No version file is
\* written; the handle's version is the current one.
DbInMemory ==
    /\ handle = <<>>
    /\ \E b \in build(tempdir, TRUE) :
          LET after == IF b.ok THEN drop_tempdir(create_default_tables(b.dir), TRUE)
                       ELSE drop_tempdir(b.dir, TRUE)
          IN /\ dir' = after
             /\ handle' = <<[entry |-> "in_memory", before |-> dir, after |-> after,
                             result |-> IF b.ok THEN DbOk(CURRENT_DB_VERSION)
                                        ELSE DbErr("OpenEnv")]>>
             /\ refs' = IF b.ok THEN <<"alive">> ELSE <<>>
    /\ UNCHANGED <<readVars, provVars, dbVars, tableVars, oracleVars, writerVars>>

\* db.clone() of a live handle h
DbClone(h) ==
    /\ h \in Alive
    /\ Len(refs) < MaxHandles
    /\ refs' = Append(refs, "alive")
    /\ UNCHANGED <<dir, handle, readVars, provVars, dbVars, tableVars, oracleVars, writerVars>>

\* drop(db) of a live handle h
DbDrop(h) ==
    /\ h \in Alive
    /\ refs' = [refs EXCEPT ![h] = "dropped"]
    /\ dir' = IF Alive = {h} THEN drop_DbEnvInner(dir) ELSE dir
    /\ UNCHANGED <<handle, readVars, provVars, dbVars, tableVars, oracleVars, writerVars>>

\* db.update(|tx| tx.put(..)) through a live handle h
MemUpdate(h, x) ==
    /\ h \in Alive
    /\ x \notin dir.data
    /\ dir' = [dir EXCEPT !.data = @ \cup {x}]
    /\ UNCHANGED <<handle, refs, readVars, provVars, dbVars, tableVars, oracleVars, writerVars>>

----------------------------------------------------------------------------
(* SpecMem: one in-memory database, its clones and their drops.            *)

InitMem ==
    /\ ReadIdle /\ ProvIdle /\ DbIdle /\ TableIdle /\ OracleIdle /\ WriterIdle
    /\ dir = NoDir /\ handle = <<>> /\ refs = <<>>

NextMem ==
    \/ DbInMemory
    \/ \E h \in 1..MaxHandles : DbClone(h)
    \/ \E h \in 1..MaxHandles : DbDrop(h)
    \/ \E h \in 1..MaxHandles, x \in Rows : MemUpdate(h, x)

SpecMem == InitMem /\ [][NextMem]_vars

\* C26: the directory of an in-memory database exists while a handle, the
\* original or a clone, is alive, and is gone once the last one has been
\* dropped.
C26_DirectoryLivesWithHandles ==
    /\ Alive # {} => dir.exists
    /\ (refs # <<>> /\ Alive = {}) => ~dir.exists

----------------------------------------------------------------------------
(* The gas oracle's sample buffer: SlidingWindowBuffer and GasPricesBuffer *)
(* of crates/oracle/gas/src/sampled/buffer.rs.                             *)
(*                                                                         *)
(* buf is a SlidingWindowBuffer: requested is the capacity new() was       *)
(* given, cap the capacity of its VecDeque, items the elements from the    *)
(* oldest to the newest; the ghosts pushed and evicted are the samples     *)
(* push was given and what each push returned.                             *)

MaxCap == 3
MaxPushes == 5

\* The capacity a VecDeque has after growing from cap to hold one more:
\* it doubles, and is at least 4.
grow(cap) == IF 2 * cap < 4 THEN 4 ELSE 2 * cap

\* SlidingWindowBuffer::new(capacity): VecDeque::with_capacity allocates
\* the requested capacity.
NewBuffer(capacity) ==
    [requested |-> capacity, cap |-> capacity, items |-> <<>>,
     pushed |-> <<>>, evicted |-> <<>>]

len(b) == Len(b.items)

is_empty(b) == b.items = <<>>

capacity(b) == b.cap

iter(b) == b.items

\* pop taking the newest element: pop_back() for pop_front().
pop_back(b) ==
    IF b.items = <<>> THEN [buffer |-> b, val |-> None]
    ELSE [buffer |-> [b EXCEPT !.items = SubSeq(@, 1, Len(@) - 1)],
          val |-> Some(b.items[Len(b.items)])]

\* pop: self.0.pop_front()
pop(b) ==
    IF b.items = <<>> THEN [buffer |-> b, val |-> None]
    ELSE [buffer |-> [b EXCEPT !.items = Tail(@)], val |-> Some(Head(b.items))]

\* VecDeque::push_back: grows when the deque is full.
push_back(b, sample) ==
    [b EXCEPT !.items = Append(@, sample),
              !.cap = IF Len(b.items) = b.cap THEN grow(b.cap) ELSE b.cap]

\* push: the buffer after the call; what it returned is the last of evicted.
push(b, sample) ==
    LET popped  == IF len(b) = capacity(b) THEN pop(b)
                   ELSE [buffer |-> b, val |-> None]
        pushed_ == push_back(popped.buffer, sample)
    IN [pushed_ EXCEPT !.pushed = Append(@, sample),
                       !.evicted = Append(@, popped.val)]

\* buffer.push(sample)
Push(sample) ==
    /\ Len(buf.pushed) < MaxPushes
    /\ buf' = push(buf, sample)
    /\ UNCHANGED <<oracle, readVars, provVars, dbVars, tableVars, fsVars, writerVars>>

----------------------------------------------------------------------------
(* SpecBuf: pushes of u128 samples into a buffer of any small capacity.    *)

BufSamples == {0, 1}

InitBuf ==
    /\ ReadIdle /\ ProvIdle /\ DbIdle /\ TableIdle /\ FsIdle /\ WriterIdle
    /\ buf \in {NewBuffer(c) : c \in 0..MaxCap} /\ oracle = <<>>

NextBuf == \E sample \in BufSamples : Push(sample)

SpecBuf == InitBuf /\ [][NextBuf]_vars

\* C27: in a buffer created with capacity c >= 1, after n pushes the
\* buffer holds the last min(n, c) pushed samples in push order, so never
\* more than c; the i-th push returned None for i <= c and the (i - c)-th
\* pushed sample for i > c.
C27_FifoEviction ==
    buf.requested >= 1 =>
        LET c == buf.requested
            n == Len(buf.pushed)
            kept == IF n < c THEN n ELSE c
        IN /\ len(buf) <= c
           /\ iter(buf) = SubSeq(buf.pushed, n - kept + 1, n)
           /\ Len(buf.evicted) = n
           /\ \A i \in 1..n :
                 buf.evicted[i] = IF i <= c THEN None ELSE Some(buf.pushed[i - c])

\* A buffer of capacity 2 after the pushes 0, 1, 1, 0: the third push
\* returned the first sample and the fourth the second.
C27_Witness ==
    /\ buf.requested = 2
    /\ buf.pushed = <<0, 1, 1, 0>>
    /\ buf.evicted = <<None, None, Some(0), Some(1)>>
    /\ buf.items = <<1, 0>>

----------------------------------------------------------------------------
(* u128 arithmetic. A number is the sequence of its 16-bit limbs, the      *)
(* least significant first; a u128 has 8 of them.                          *)

LimbBase == 65536

\* The u128 of a small natural k.
U128(k) == [i \in 1..8 |-> IF i = 1 THEN k % LimbBase
                           ELSE IF i = 2 THEN k \div LimbBase ELSE 0]

\* u128::MAX
U128_MAX == [i \in 1..8 |-> LimbBase - 1]

\* u128::MAX / 2
U128_HALF == [i \in 1..8 |-> IF i = 8 THEN LimbBase \div 2 - 1 ELSE LimbBase - 1]

\* The carry into limb i of a + b.
RECURSIVE CarryInto(_, _, _)
CarryInto(a, b, i) ==
    IF i = 1 THEN 0
    ELSE (a[i - 1] + b[i - 1] + CarryInto(a, b, i - 1)) \div LimbBase

\* a + b of two numbers of the same length, with one more limb for the carry.
AddLimbs(a, b) ==
    [i \in 1..Len(a) + 1 |->
        IF i <= Len(a) THEN (a[i] + b[i] + CarryInto(a, b, i)) % LimbBase
        ELSE CarryInto(a, b, i)]

\* An addition that wraps around at 2^128.
saturating_add_wraps(a, b) == SubSeq(AddLimbs(a, b), 1, 8)

\* u128::saturating_add
saturating_add(a, b) ==
    LET s == AddLimbs(a, b) IN IF s[9] > 0 THEN U128_MAX ELSE SubSeq(s, 1, 8)

\* u128::wrapping_add
wrapping_add(a, b) == SubSeq(AddLimbs(a, b), 1, 8)

\* The remainder of the limbs i.. of a, as a number, divided by n.
RECURSIVE RemFrom(_, _, _)
RemFrom(a, n, i) ==
    IF i > Len(a) THEN 0 ELSE (RemFrom(a, n, i + 1) * LimbBase + a[i]) % n

\* a / n and a % n for a small n >= 1, by long division.
DivSmall(a, n) ==
    [i \in 1..Len(a) |-> (RemFrom(a, n, i + 1) * LimbBase + a[i]) \div n]
ModSmall(a, n) == RemFrom(a, n, 1)

\* Division rounding down, for div_ceil.
div_floor(a, n) == DivSmall(a, n)

\* u128::div_ceil: the quotient, and one more when there is a remainder.
div_ceil(a, n) ==
    IF ModSmall(a, n) > 0 THEN wrapping_add(DivSmall(a, n), U128(1))
    ELSE DivSmall(a, n)

----------------------------------------------------------------------------
(* GasPricesBuffer: a SlidingWindowBuffer of GasPrices, [eth, strk].       *)

MaxGasPushes == 4

\* GasPrices::new_unchecked(eth, strk)
new_unchecked(eth, strk) == [eth |-> eth, strk |-> strk]

\* GasPrices::MIN: both prices 1, the least NonZeroU128.
GasPrices_MIN == new_unchecked(U128(1), U128(1))

\* The fold of sum_gas_prices over the samples, from (0, 0).
RECURSIVE fold_saturating(_, _)
fold_saturating(acc, samples) ==
    IF samples = <<>> THEN acc
    ELSE fold_saturating(new_unchecked(saturating_add(acc.eth, Head(samples).eth),
                                       saturating_add(acc.strk, Head(samples).strk)),
                         Tail(samples))

sum_gas_prices(samples) == fold_saturating(new_unchecked(U128(0), U128(0)), samples)

\* GasPricesBuffer::average
average(b) ==
    IF is_empty(b) THEN GasPrices_MIN
    ELSE LET sum == sum_gas_prices(iter(b))
         IN new_unchecked(div_ceil(sum.eth, len(b)), div_ceil(sum.strk, len(b)))

\* GasPricesBuffer::push: what the buffer's push returns is dropped.
GasPush(prices) ==
    /\ Len(buf.pushed) < MaxGasPushes
    /\ buf' = push(buf, prices)
    /\ UNCHANGED <<oracle, readVars, provVars, dbVars, tableVars, fsVars, writerVars>>

----------------------------------------------------------------------------
(* SpecGas: pushes of gas prices, small ones and ones near u128::MAX.      *)

GasSamples ==
    {new_unchecked(U128(10), U128(11)), new_unchecked(U128(20), U128(22)),
     new_unchecked(U128(100), U128(200)),
     new_unchecked(U128_HALF, U128_HALF), GasPrices_MIN,
     new_unchecked(U128_MAX, U128_MAX)}

InitGas ==
    /\ ReadIdle /\ ProvIdle /\ DbIdle /\ TableIdle /\ FsIdle /\ WriterIdle
    /\ buf \in {NewBuffer(c) : c \in 1..MaxCap} /\ oracle = <<>>

NextGas == \E prices \in GasSamples : GasPush(prices)

SpecGas == InitGas /\ [][NextGas]_vars

\* Numbers of 10 limbs, wide enough for the sums and products below.
Wide(a) == [i \in 1..10 |-> IF i <= Len(a) THEN a[i] ELSE 0]

AddWide(a, b) == SubSeq(AddLimbs(a, b), 1, 10)

RECURSIVE TimesWide(_, _)
TimesWide(a, n) == IF n = 0 THEN Wide(<<>>) ELSE AddWide(a, TimesWide(a, n - 1))

Reversed(a) == [i \in 1..Len(a) |-> a[Len(a) + 1 - i]]

LessWide(a, b) == LexLess(Reversed(a), Reversed(b))

\* The sum of the numbers of a sequence, without saturation.
RECURSIVE SumWide(_)
SumWide(s) == IF s = <<>> THEN Wide(<<>>) ELSE AddWide(Wide(Head(s)), SumWide(Tail(s)))

\* S saturated at u128::MAX
SaturatedWide(S) == IF LessWide(Wide(U128_MAX), S) THEN Wide(U128_MAX) ELSE S

\* q is the ceiling of S / n: S <= n * q < S + n.
IsCeilingOf(q, S, n) ==
    /\ ~LessWide(TimesWide(Wide(q), n), S)
    /\ LessWide(TimesWide(Wide(q), n), AddWide(S, Wide(U128(n))))

EthOf(samples) == [i \in 1..Len(samples) |-> samples[i].eth]
StrkOf(samples) == [i \in 1..Len(samples) |-> samples[i].strk]

\* C28: the average of an empty buffer is GasPrices::MIN; of a buffer of
\* n >= 1 samples, each component of the average is the ceiling of S / n,
\* S being the sum of that component over the stored samples saturated at
\* u128::MAX.
C28_AverageIsCeilingOfSaturatedSum ==
    IF buf.items = <<>> THEN average(buf) = GasPrices_MIN
    ELSE /\ IsCeilingOf(average(buf).eth,
                        SaturatedWide(SumWide(EthOf(buf.items))), Len(buf.items))
         /\ IsCeilingOf(average(buf).strk,
                        SaturatedWide(SumWide(StrkOf(buf.items))), Len(buf.items))

\* A buffer of capacity 2 after three pushes that holds the samples of the
\* test of the ceiling and the odd sum 11 + 22: the average is (15, 17).
C28_Witness ==
    /\ Len(buf.pushed) = 3
    /\ buf.items = <<new_unchecked(U128(10), U128(11)), new_unchecked(U128(20), U128(22))>>
    /\ average(buf) = new_unchecked(U128(15), U128(17))

----------------------------------------------------------------------------
(* Claims about the history of a chain, checked under SpecChain and Spec.  *)

\* C29: a block commit leaves the result of every Historical(N) read, of the
\* nonce, the class hash and the storage of every key, as it was, for every
\* block N committed before it, whether the block changes the key or not.
C29_HistoryIsImmutable ==
    [][\A N \in Committed : \A K \in StateKeys :
          HistoricalRead(db', N, K) = HistoricalRead(db, N, K)]_vars

\* A key set in block 0 and changed in blocks 1 and 2, with a further block
\* after: the reads at 0 and 1 are still the values those blocks set.
C29_Witness ==
    /\ latest = Some(3)
    /\ \E K \in ChainKeys : \E v1 \in Values : \E v2 \in Values \ {v1} :
          /\ <<0, K, v1>> \in writes /\ <<1, K, v2>> \in writes /\ <<2, K, v1>> \in writes
          /\ HistoricalRead(db, 0, K) = Ok(Some(v1))
          /\ HistoricalRead(db, 1, K) = Ok(Some(v2))
          /\ HistoricalRead(db, 3, K) = Ok(Some(v1))

\* C30: once a block is committed, the Latest provider and a Historical
\* provider pinned at the latest block T read the same nonce, class hash
\* and storage value for every contract address and storage key.
C30_LatestAgreesWithTip ==
    IsSome(latest) =>
        \A K \in StateKeys : LatestRead(db, K) = HistoricalRead(db, latest[1], K)

----------------------------------------------------------------------------
(* SpecStore: StateWriter calls made on their own, one after another, on   *)
(* a database that is empty or holds one committed block.                  *)

MaxCalls == 3

StoreInitChanges == {<<"nonce", 1, 0, 1>>, <<"storage", 1, 1, 1>>}

InitStore ==
    /\ ReadIdle /\ DbIdle /\ TableIdle /\ FsIdle /\ OracleIdle
    /\ log = <<>> /\ ndirect = 0 /\ provs = <<>>
    /\ \E d \in Diffs(StoreInitChanges, 2) :
          IF d = {}
          THEN db = EmptyTables /\ latest = None /\ writes = {} /\ touched = {}
          ELSE /\ db = insert_block_with_states_and_receipts(EmptyTables, 0, d)
               /\ latest = Some(0)
               /\ writes = {<<0, KeyOf(c), c[4]>> : c \in d}
               /\ touched = {KeyOf(c) : c \in d}

WriterCall(op, address, key, value, after) ==
    /\ Len(log) < MaxCalls
    /\ db' = after
    /\ log' = Append(log, [op |-> op, address |-> address, key |-> key,
                           value |-> value, before |-> db])
    /\ UNCHANGED <<latest, writes, touched, ndirect, provs,
                   readVars, dbVars, tableVars, fsVars, oracleVars>>

\* provider.set_storage(address, storage_key, storage_value)
StoreSetStorage(address, storage_key, storage_value) ==
    WriterCall("set_storage", address, storage_key, storage_value,
               set_storage(db, address, storage_key, storage_value))

\* provider.set_nonce(address, nonce)
StoreSetNonce(address, nonce) ==
    WriterCall("set_nonce", address, 0, nonce, set_nonce(db, address, nonce))

\* provider.set_class_hash_of_contract(address, class_hash)
StoreSetClassHash(address, class_hash) ==
    WriterCall("set_class_hash_of_contract", address, 0, class_hash,
               set_class_hash_of_contract(db, address, class_hash))

NextStore ==
    \/ \E a \in Addresses, k \in StorageKeys, v \in Values : StoreSetStorage(a, k, v)
    \/ \E a \in Addresses, v \in Values : StoreSetNonce(a, v)
    \/ \E a \in Addresses, v \in Values : StoreSetClassHash(a, v)

SpecStore == InitStore /\ [][NextStore]_vars

\* The tables the i-th call left.
AfterCall(i) == IF i < Len(log) THEN log[i + 1].before ELSE db

\* The entries of the slot (address, key) in the ContractStorage table t.
SlotEntries(t, address, key) ==
    {r \in t.ContractStorage : r[1] = address /\ r[2] = key}

\* The set_storage calls made for the slot.
StorageCalls(address, key) ==
    {i \in 1..Len(log) : /\ log[i].op = "set_storage"
                         /\ log[i].address = address /\ log[i].key = key}

\* C31: after any sequence of set_storage calls the ContractStorage group of
\* each address holds exactly one entry for each storage key that was
\* written and none for the others, Latest.storage reads the value of the
\* last set_storage of the slot, and each call left the entries of every
\* other slot as they were.
C31_OneEntryPerSlot ==
    /\ \A a \in Addresses : \A k \in StorageKeys :
          LET calls == StorageCalls(a, k)
              written == calls # {} \/ \E w \in writes : w[2] = <<"storage", a, k>>
          IN /\ Cardinality(SlotEntries(db, a, k)) = IF written THEN 1 ELSE 0
             /\ calls # {} => LatestStorage(db, a, k) = Ok(Some(log[SetMax(calls)].value))
    /\ \A i \in 1..Len(log) :
          log[i].op = "set_storage" =>
              AfterCall(i).ContractStorage \ SlotEntries(AfterCall(i), log[i].address, log[i].key)
                = log[i].before.ContractStorage
                      \ SlotEntries(log[i].before, log[i].address, log[i].key)

\* A slot set to 1 and then to 2 while the other slot of the address and a
\* slot of the other address hold their values.
C31_Witness ==
    /\ Len(log) = 3
    /\ \E a \in Addresses : \E k \in StorageKeys :
          /\ log[1].op = "set_storage" /\ log[1].address = a /\ log[1].key = k
          /\ log[1].value = 1
          /\ log[2].op = "set_storage" /\ log[2].address = a /\ log[2].key # k
          /\ log[3].op = "set_storage" /\ log[3].address = a /\ log[3].key = k
          /\ log[3].value = 2
          /\ LatestStorage(db, a, k) = Ok(Some(2))
          /\ Cardinality({r \in db.ContractStorage : r[1] = a}) = 2

\* The ContractInfo row r with its two fields: nonce and class_hash.
InfoRow(nonce, class_hash) ==
    [DefaultContractInfo EXCEPT !.nonce = nonce, !.class_hash = class_hash]

\* C33: set_nonce(a, n) changes only the nonce of a's ContractInfo row and
\* set_class_hash_of_contract(a, c) only its class_hash; the other field
\* keeps the value it had, or is the default when a had no row; the rows of
\* the other addresses and every other table, the block lists and the
\* change history among them, are as the call found them.
C33_ContractInfoFrame ==
    \A i \in 1..Len(log) :
        LET before == log[i].before
            after == AfterCall(i)
            a == log[i].address
            old == IF IsSome(before.ContractInfo[a]) THEN before.ContractInfo[a][1]
                   ELSE DefaultContractInfo
        IN log[i].op \in {"set_nonce", "set_class_hash_of_contract"} =>
              /\ [after EXCEPT !.ContractInfo = before.ContractInfo] = before
              /\ \A x \in Addresses \ {a} : after.ContractInfo[x] = before.ContractInfo[x]
              /\ after.ContractInfo[a] =
                    Some(IF log[i].op = "set_nonce"
                         THEN InfoRow(log[i].value, old.class_hash)
                         ELSE InfoRow(old.nonce, log[i].value))

\* On a database with a committed block: the class hash of an address is
\* set, then its nonce, and the row keeps the class hash; the nonce of an
\* address with no row is set and its class hash is the default.
C33_Witness ==
    /\ Len(log) = 3
    /\ latest = Some(0) /\ db.StorageChangeSet # EmptyTables.StorageChangeSet
    /\ log[1].op = "set_class_hash_of_contract" /\ log[1].value # DefaultFelt
    /\ log[2].op = "set_nonce" /\ log[2].address = log[1].address
    /\ log[2].value # DefaultFelt
    /\ db.ContractInfo[log[1].address] = Some(InfoRow(log[2].value, log[1].value))
    /\ log[3].op = "set_nonce" /\ log[3].address # log[1].address
    /\ ~IsSome(log[3].before.ContractInfo[log[3].address])
    /\ db.ContractInfo[log[3].address] = Some(InfoRow(log[3].value, DefaultFelt))

----------------------------------------------------------------------------
(* SpecUpdate: StateWriter calls in which an operation of the engine may   *)
(* fail.  Each writer runs its closure under Database::update              *)
(* (state.rs:22, 39): the closure returns a ProviderResult, and update     *)
(* returns that value inside Ok, so the call ends with `?` on the outer    *)
(* result and yields the closure's.  update takes a closure of any result   *)
(* type (the tests at mdbx/mod.rs:514-522 pass one that returns the unit   *)
(* value): it commits the transaction once the closure has returned,       *)
(* whatever it returned.                                                   *)

MaxUpdates == 2

StorageFaults == {"none", "cursor_dup_mut", "seek_by_key_subkey", "delete_current",
                  "upsert", "commit"}
NonceFaults == {"none", "get", "put", "commit"}

DatabaseError(op) == Err("DatabaseError", op)

\* The closure of set_storage on the transaction tx, the operation `fault`
\* returning an error: [tx, result], the transaction as the closure left it
\* and what the closure returned.
set_storage_closure(db_tx, address, storage_key, storage_value, fault) ==
    IF fault \in {"cursor_dup_mut", "seek_by_key_subkey"}
    THEN [tx |-> db_tx, result |-> DatabaseError(fault)]
    ELSE LET slot == seek_by_key_subkey(db_tx.ContractStorage, address, <<storage_key>>)
             found == IsSome(slot) /\ slot[1][2] = storage_key
             deleted == IF found
                        THEN [db_tx EXCEPT !.ContractStorage = @ \ {slot[1]}]
                        ELSE db_tx
         IN IF found /\ fault = "delete_current"
            THEN [tx |-> db_tx, result |-> DatabaseError(fault)]
            ELSE IF fault = "upsert"
            THEN [tx |-> deleted, result |-> DatabaseError(fault)]
            ELSE [tx |-> [deleted EXCEPT !.ContractStorage =
                              @ \cup {<<address, storage_key, storage_value>>}],
                  result |-> Ok(None)]

\* The closure of set_nonce, likewise.
set_nonce_closure(db_tx, address, nonce, fault) ==
    IF fault \in {"get", "put"}
    THEN [tx |-> db_tx, result |-> DatabaseError(fault)]
    ELSE [tx |-> set_nonce(db_tx, address, nonce), result |-> Ok(None)]

\* Database::update(f): tx_mut(), f(&tx), tx.commit()?, Ok(res).  A commit
\* that fails leaves the tables as they were; ran is what the closure made
\* of the transaction.
update(env, ran, fault) ==
    IF fault = "commit"
    THEN [env |-> env, result |-> DatabaseError(fault)]
    ELSE [env |-> ran.tx, result |-> ran.result]

UpdateCall(op, address, key, value, fault, done_) ==
    /\ Len(log) < MaxUpdates
    /\ db' = done_.env
    /\ log' = Append(log, [op |-> op, address |-> address, key |-> key,
                           value |-> value, before |-> db, fault |-> fault,
                           result |-> done_.result])
    /\ UNCHANGED <<latest, writes, touched, ndirect, provs,
                   readVars, dbVars, tableVars, fsVars, oracleVars>>

\* provider.set_storage(address, storage_key, storage_value)
UpdateSetStorage(address, storage_key, storage_value, fault) ==
    UpdateCall("set_storage", address, storage_key, storage_value, fault,
               update(db, set_storage_closure(tx_mut(db), address, storage_key,
                                              storage_value, fault), fault))

\* provider.set_nonce(address, nonce)
UpdateSetNonce(address, nonce, fault) ==
    UpdateCall("set_nonce", address, 0, nonce, fault,
               update(db, set_nonce_closure(tx_mut(db), address, nonce, fault), fault))

NextUpdate ==
    \/ \E a \in Addresses, k \in StorageKeys, v \in Values, f \in StorageFaults :
          UpdateSetStorage(a, k, v, f)
    \/ \E a \in Addresses, v \in Values, f \in NonceFaults : UpdateSetNonce(a, v, f)

SpecUpdate == InitStore /\ [][NextUpdate]_vars

\* C34: a write transaction that did not go through, the one of a
\* StateWriter call that returned an error among them, leaves every table
\* as it found it.
C34_FailedWriteLeavesTablesUnchanged ==
    \A i \in 1..Len(log) :
        log[i].result.tag = "Err" => AfterCall(i) = log[i].before

----------------------------------------------------------------------------
(* SpecOracle: SampledPriceOracle (sampled/mod.rs).  oracle is             *)
(*   samples   the three GasPricesBuffers behind the mutex                 *)
(*   lock      who holds the mutex: None or Some("worker")                 *)
(*   pc        where the worker is: "tick" awaiting interval.tick(),       *)
(*             "sample" awaiting the retried request, "l2", "l1",          *)
(*             "l1_data" before the push of that buffer, "panicked"        *)
(*   prices    the SampledPrices the request returned, while pushing       *)
(*   attempts  the attempts of the request that failed in this tick        *)
(* and as ghosts the ticks, the rounds that ended Ok and Err, the outcome  *)
(* of the last round with the samples it found, and what the last caller   *)
(* of an avg_* method got with the lengths of the buffers it could see.    *)

SampleSize == 2             \* SAMPLE_SIZE, the window of each buffer
MaxTicks == 3               \* ticks of the sampling interval
MaxRetries == 2             \* retries of a request within one tick

BufferNames == {"l2_gas_prices", "l1_gas_prices", "l1_data_gas_prices"}

\* Samples::new(size)
Samples_new(size) == [b \in BufferNames |-> NewBuffer(size)]

Price(k) == new_unchecked(U128(k), U128(k))

\* What a request may return: SampledPrices of three different prices.
SampledPricesSet ==
    {[l2_gas_prices |-> Price(k), l1_gas_prices |-> Price(k + 1),
      l1_data_gas_prices |-> Price(k + 2)] : k \in {1, 10}}

NoPrices == [b \in BufferNames |-> Price(0)]

Lens(samples) == [b \in BufferNames |-> len(samples[b])]

\* SampledPriceOracle::new(sampler)
InitOracle ==
    /\ ReadIdle /\ ProvIdle /\ DbIdle /\ TableIdle /\ FsIdle /\ WriterIdle
    /\ buf = <<>>
    /\ oracle = [samples |-> Samples_new(SampleSize), lock |-> None, pc |-> "tick",
                 prices |-> NoPrices, attempts |-> 0, ticks |-> 0, oks |-> 0, errs |-> 0,
                 last |-> [outcome |-> "none", before |-> Samples_new(SampleSize)],
                 obs |-> None]

OracleStep(after) ==
    /\ oracle' = after
    /\ UNCHANGED <<buf, readVars, provVars, dbVars, tableVars, fsVars, writerVars>>

\* interval.tick().await returns and the request is made
Tick ==
    /\ oracle.pc = "tick" /\ oracle.ticks < MaxTicks
    /\ OracleStep([oracle EXCEPT !.pc = "sample", !.attempts = 0, !.ticks = @ + 1,
                                 !.last = [outcome |-> "none", before |-> oracle.samples]])

\* an attempt fails and the backoff retries it
SampleRetry ==
    /\ oracle.pc = "sample" /\ oracle.attempts < MaxRetries
    /\ OracleStep([oracle EXCEPT !.attempts = @ + 1])

\* Ok(prices) that pushes without taking the lock
SampleOk_unlocked(prices) ==
    /\ oracle.pc = "sample"
    /\ OracleStep([oracle EXCEPT !.pc = "l2", !.prices = prices])

\* Ok(prices): inner.samples.lock()
SampleOk(prices) ==
    /\ oracle.pc = "sample" /\ IsNone(oracle.lock)
    /\ OracleStep([oracle EXCEPT !.pc = "l2", !.prices = prices, !.lock = Some("worker")])

\* buffers.l2_gas_prices.push(prices.l2_gas_prices)
PushL2 ==
    /\ oracle.pc = "l2"
    /\ OracleStep([oracle EXCEPT !.pc = "l1",
                      !.samples["l2_gas_prices"] = push(@, oracle.prices.l2_gas_prices)])

\* buffers.l1_gas_prices.push(prices.l1_gas_prices)
PushL1 ==
    /\ oracle.pc = "l1"
    /\ OracleStep([oracle EXCEPT !.pc = "l1_data",
                      !.samples["l1_gas_prices"] = push(@, oracle.prices.l1_gas_prices)])

\* buffers.l1_data_gas_prices.push(prices.l1_data_gas_prices); the guard is
\* dropped at the end of the arm
PushL1Data ==
    /\ oracle.pc = "l1_data"
    /\ OracleStep([oracle EXCEPT !.pc = "tick", !.prices = NoPrices, !.lock = None,
                      !.oks = @ + 1, !.last.outcome = "ok",
                      !.samples["l1_data_gas_prices"] =
                          push(@, oracle.prices.l1_data_gas_prices)])

\* Err(error) that ends the worker
SampleErr_returns ==
    /\ oracle.pc = "sample" /\ oracle.attempts = MaxRetries
    /\ OracleStep([oracle EXCEPT !.pc = "panicked", !.errs = @ + 1, !.last.outcome = "err"])

\* Err(error) once the retries are used up: the error is logged
SampleErr ==
    /\ oracle.pc = "sample" /\ oracle.attempts = MaxRetries
    /\ OracleStep([oracle EXCEPT !.pc = "tick", !.errs = @ + 1, !.last.outcome = "err"])

\* sample() panics: an unwrap of starknet.rs:38-50 on a price that is no
\* u128, or of ethereum.rs on an empty fee history
SamplePanic ==
    /\ oracle.pc = "sample"
    /\ OracleStep([oracle EXCEPT !.pc = "panicked", !.last.outcome = "panic"])

\* self.inner.samples.lock().<buffer>.average()
Avg(b) ==
    /\ IsNone(oracle.lock)
    /\ OracleStep([oracle EXCEPT !.obs = Some([method |-> b,
                                               value |-> average(oracle.samples[b]),
                                               lens |-> Lens(oracle.samples)])])

avg_l2_gas_prices == Avg("l2_gas_prices")
avg_l1_gas_prices == Avg("l1_gas_prices")
avg_l1_data_gas_prices == Avg("l1_data_gas_prices")

NextOracle ==
    \/ Tick
    \/ SampleRetry
    \/ \E prices \in SampledPricesSet : SampleOk(prices)
    \/ PushL2
    \/ PushL1
    \/ PushL1Data
    \/ SampleErr
    \/ SamplePanic
    \/ avg_l2_gas_prices
    \/ avg_l1_gas_prices
    \/ avg_l1_data_gas_prices

SpecOracle == InitOracle /\ [][NextOracle]_vars

AllEqual(f) == \A a \in DOMAIN f : \A b \in DOMAIN f : f[a] = f[b]

Pushed(b) == Len(oracle.samples[b].pushed)

\* C35: whenever the mutex is free, and so in whatever a caller of an avg_*
\* method saw, the three buffers hold the same number of samples; each has
\* been pushed to once per round that ended Ok, the three pushes of a round
\* made while the worker holds the mutex, and at most once per tick.
C35_BuffersInStep ==
    /\ IsNone(oracle.lock) =>
          /\ AllEqual(Lens(oracle.samples))
          /\ \A b \in BufferNames : Pushed(b) = oracle.oks
    /\ IsSome(oracle.obs) => AllEqual(oracle.obs[1].lens)
    /\ oracle.pc \in {"l2", "l1", "l1_data"} <=> IsSome(oracle.lock)
    /\ \A b \in BufferNames :
          /\ Pushed(b) \in {oracle.oks, oracle.oks + 1}
          /\ Pushed(b) <= oracle.ticks

\* Three rounds ended Ok, the window of 2 is full, and a caller read the
\* average of the l1 prices of the last two rounds.
C35_Witness ==
    /\ oracle.oks = 3 /\ IsNone(oracle.lock)
    /\ Lens(oracle.samples) = [b \in BufferNames |-> SampleSize]
    /\ IsSome(oracle.obs) /\ oracle.obs[1].method = "l1_gas_prices"
    /\ oracle.obs[1].value = Price(11)
    /\ oracle.samples["l2_gas_prices"].items = <<Price(10), Price(10)>>

\* C36: when the request of a tick has failed with its retries used up, the
\* three buffers, and with them the averages, are as the tick found them
\* and the worker awaits the next tick; the worker ends only by a panic,
\* never by an error, and between rounds every tick is accounted for by a
\* round that ended Ok, whose sample is in the buffers, or Err.
C36_SamplingFailureContained ==
    /\ oracle.last.outcome = "err" =>
          /\ oracle.samples = oracle.last.before
          /\ \A b \in BufferNames :
                average(oracle.samples[b]) = average(oracle.last.before[b])
          /\ oracle.pc = "tick" /\ IsNone(oracle.lock)
          /\ oracle.ticks < MaxTicks => ENABLED Tick
    /\ oracle.pc = "panicked" => oracle.last.outcome = "panic"
    /\ oracle.pc = "tick" =>
          /\ oracle.ticks = oracle.oks + oracle.errs
          /\ \A b \in BufferNames : Pushed(b) = oracle.oks

\* A round that ended Ok, a tick whose request failed after its retries,
\* and a later round that ended Ok and whose sample is the newest in the
\* buffers.
C36_Witness ==
    /\ oracle.ticks = 3 /\ oracle.oks = 2 /\ oracle.errs = 1
    /\ oracle.last.outcome = "ok" /\ oracle.pc = "tick"
    /\ Lens(oracle.last.before) = [b \in BufferNames |-> 1]
    /\ oracle.samples["l1_data_gas_prices"].items = <<Price(3), Price(12)>>

----------------------------------------------------------------------------
(* The average against the stored samples, under SpecGas.                  *)

\* a <= b for two u128
LeqU128(a, b) == ~LessWide(b, a)

\* q is no less than the smallest and no greater than the largest of s.
WithinRange(q, s) ==
    /\ \E i \in 1..Len(s) : LeqU128(s[i], q)
    /\ \E i \in 1..Len(s) : LeqU128(q, s[i])

\* C37: each component of the average of a non-empty buffer lies between
\* the smallest and the largest stored sample of that component, also when
\* the sum of the samples exceeds u128::MAX.
C37_AverageWithinRange ==
    buf.items # <<>> =>
        /\ WithinRange(average(buf).eth, EthOf(buf.items))
        /\ WithinRange(average(buf).strk, StrkOf(buf.items))

\* C38: in every buffer reached by pushing samples whose prices are all
\* nonzero, the empty one included, both components of average() are
\* nonzero, and so are both components of the sum of a non-empty buffer.
C38_AverageIsNonZero ==
    /\ average(buf).eth # U128(0) /\ average(buf).strk # U128(0)
    /\ buf.items # <<>> =>
          /\ sum_gas_prices(iter(buf)).eth # U128(0)
          /\ sum_gas_prices(iter(buf)).strk # U128(0)

\* A buffer that holds u128::MAX and 1: the sum saturates at u128::MAX and
\* the average is 2^127.
C38_Witness ==
    /\ \A i \in 1..Len(buf.pushed) : buf.pushed[i].eth # U128(0) /\ buf.pushed[i].strk # U128(0)
    /\ buf.items = <<new_unchecked(U128_MAX, U128_MAX), GasPrices_MIN>>
    /\ sum_gas_prices(iter(buf)).eth = U128_MAX
    /\ average(buf).eth = [i \in 1..8 |-> IF i = 8 THEN LimbBase \div 2 ELSE 0]

----------------------------------------------------------------------------
(* StarknetVersion (crates/primitives/src/version.rs): four u8 segments.   *)
(* A text is the sequence of its characters.                               *)

MaxSegment == 14            \* segments are 0..MaxSegment and 255

Segments == 0..MaxSegment \cup {255}
Versions == Segments \X Segments \X Segments \X Segments

DigitChars == <<"0", "1", "2", "3", "4", "5", "6", "7", "8", "9">>
IsDigit(c) == \E i \in 1..10 : DigitChars[i] = c
DigitOf(c) == (CHOOSE i \in 1..10 : DigitChars[i] = c) - 1

\* "{segment}": the decimal digits of a u8
RECURSIVE to_decimal(_)
to_decimal(n) ==
    IF n < 10 THEN <<DigitChars[n + 1]>>
    ELSE to_decimal(n \div 10) \o <<DigitChars[(n % 10) + 1]>>

\* Display that prints the fourth segment also when it is zero.
to_string_four(v) ==
    to_decimal(v[1]) \o <<".">> \o to_decimal(v[2]) \o <<".">> \o to_decimal(v[3])
        \o <<".">> \o to_decimal(v[4])

\* impl Display for StarknetVersion
to_string(v) ==
    to_decimal(v[1]) \o <<".">> \o to_decimal(v[2]) \o <<".">> \o to_decimal(v[3])
        \o (IF v[4] # 0 THEN <<".">> \o to_decimal(v[4]) ELSE <<>>)

\* version.split('.')
RECURSIVE split(_)
split(text) ==
    LET dots == {i \in 1..Len(text) : text[i] = "."}
    IN IF dots = {} THEN <<text>>
       ELSE LET i == SetMin(dots)
            IN <<SubSeq(text, 1, i - 1)>> \o split(SubSeq(text, i + 1, Len(text)))

RECURSIVE DecimalValue(_)
DecimalValue(digits) ==
    IF digits = <<>> THEN 0
    ELSE DecimalValue(SubSeq(digits, 1, Len(digits) - 1)) * 10 + DigitOf(digits[Len(digits)])

\* seg.parse::<u8>(): decimal digits after an optional "+", at most 255
parse_u8(seg) ==
    IF seg = <<>> THEN Err("ParseSegment", "Empty")
    ELSE LET digits == IF Head(seg) = "+" THEN Tail(seg) ELSE seg
         IN IF digits = <<>> \/ \E i \in 1..Len(digits) : ~IsDigit(digits[i])
            THEN Err("ParseSegment", "InvalidDigit")
            ELSE IF DecimalValue(digits) > 255
            THEN Err("ParseSegment", "PosOverflow")
            ELSE Ok(DecimalValue(digits))

\* A parse that takes four segments and no fewer.
parse_four(version) ==
    IF version = <<>> \/ Len(split(version)) # 4 THEN Err("InvalidFormat", "")
    ELSE LET parts == split(version)
             parsed == [i \in 1..4 |-> IF parts[i] = <<>> THEN Ok(0) ELSE parse_u8(parts[i])]
             bad == {i \in 1..4 : parsed[i].tag = "Err"}
         IN IF bad # {} THEN parsed[SetMin(bad)]
            ELSE Ok([i \in 1..4 |-> parsed[i].val])

\* StarknetVersion::parse
parse(version) ==
    IF version = <<>> THEN Err("InvalidFormat", "")
    ELSE LET parts == split(version)
         IN IF Len(parts) > 4 THEN Err("InvalidFormat", "")
            ELSE LET parsed == [i \in 1..Len(parts) |->
                                   IF parts[i] = <<>> THEN Ok(0) ELSE parse_u8(parts[i])]
                     bad == {i \in 1..Len(parts) : parsed[i].tag = "Err"}
                 IN IF bad # {} THEN parsed[SetMin(bad)]
                    ELSE Ok([i \in 1..4 |-> IF i <= Len(parts) THEN parsed[i].val ELSE 0])

\* The arms of the match: the segments and the starknet_api variant, a
\* variant Va_b_c or Va_b_c_d being the sequence of its numbers.
Releases ==
    {<<<<0, 9, 1, 0>>, <<0, 9, 1>>>>,
     <<<<0, 10, 0, 0>>, <<0, 10, 0>>>>,
     <<<<0, 10, 1, 0>>, <<0, 10, 1>>>>,
     <<<<0, 10, 2, 0>>, <<0, 10, 2>>>>,
     <<<<0, 10, 3, 0>>, <<0, 10, 3>>>>,
     <<<<0, 11, 0, 0>>, <<0, 11, 0>>>>,
     <<<<0, 11, 0, 2>>, <<0, 11, 0, 2>>>>,
     <<<<0, 11, 1, 0>>, <<0, 11, 1>>>>,
     <<<<0, 11, 2, 0>>, <<0, 11, 2>>>>,
     <<<<0, 12, 0, 0>>, <<0, 12, 0>>>>,
     <<<<0, 12, 1, 0>>, <<0, 12, 1>>>>,
     <<<<0, 12, 2, 0>>, <<0, 12, 2>>>>,
     <<<<0, 12, 3, 0>>, <<0, 12, 3>>>>,
     <<<<0, 13, 0, 0>>, <<0, 13, 0>>>>,
     <<<<0, 13, 1, 0>>, <<0, 13, 1>>>>,
     <<<<0, 13, 1, 1>>, <<0, 13, 3>>>>,
     <<<<0, 13, 2, 0>>, <<0, 13, 2>>>>,
     <<<<0, 13, 2, 1>>, <<0, 13, 2, 1>>>>,
     <<<<0, 13, 3, 0>>, <<0, 13, 3>>>>,
     <<<<0, 13, 4, 0>>, <<0, 13, 4>>>>,
     <<<<0, 13, 5, 0>>, <<0, 13, 5>>>>,
     <<<<0, 14, 0, 0>>, <<0, 14, 0>>>>}

\* impl TryFrom<StarknetVersion> for starknet_api::block::StarknetVersion
try_from(version) ==
    IF \E r \in Releases : r[1] = version
    THEN Ok((CHOOSE r \in Releases : r[1] = version)[2])
    ELSE Err("InvalidVersionError", version)

\* The texts given to parse besides the ones Display prints.
Texts ==
    {<<>>,
     <<"1", ".", "9", ".", "0", ".", "0">>,
     <<"1", ".", "9", ".", "0">>,
     <<"0", ".", "f", "v", ".", "1", ".", "0">>,
     <<"1", ".", ".", ".">>,
     <<"1", ".", "2", ".", "3", ".", "4">>,
     <<"1", ".", "2", ".", "3", ".", "4", ".", "5">>,
     <<"2", "5", "6", ".", "1">>,
     <<"0", "0", "7", ".", "0", "1">>,
     <<"+", "1", ".", "2">>,
     <<"+">>,
     <<"1", ".", "-", "2">>,
     <<".">>,
     <<".", ".", ".", ".">>,
     <<"1", "3">>}

NoVersion == <<0, 0, 0, 0>>

VersionCall(op, version, text, result) ==
    log' = Append(log, [op |-> op, version |-> version, text |-> text, result |-> result])

\* version.to_string()
Display(v) ==
    /\ log = <<>>
    /\ VersionCall("to_string", v, to_string(v), Ok(0))
    /\ UNCHANGED <<readVars, provVars, dbVars, tableVars, fsVars, oracleVars>>

\* StarknetVersion::parse of what to_string gave
ParseDisplayed ==
    /\ Len(log) = 1 /\ log[1].op = "to_string"
    /\ VersionCall("parse", log[1].version, log[1].text, parse(log[1].text))
    /\ UNCHANGED <<readVars, provVars, dbVars, tableVars, fsVars, oracleVars>>

\* StarknetVersion::parse of a given text
Parse(text) ==
    /\ log = <<>>
    /\ VersionCall("parse", NoVersion, text, parse(text))
    /\ UNCHANGED <<readVars, provVars, dbVars, tableVars, fsVars, oracleVars>>

\* starknet_api::block::StarknetVersion::try_from(version)
TryFrom(v) ==
    /\ log = <<>>
    /\ VersionCall("try_from", v, <<>>, try_from(v))
    /\ UNCHANGED <<readVars, provVars, dbVars, tableVars, fsVars, oracleVars>>

InitVersion ==
    /\ ReadIdle /\ ProvIdle /\ DbIdle /\ TableIdle /\ FsIdle /\ OracleIdle
    /\ log = <<>>

NextVersion ==
    \/ log = <<>> /\ \E v \in Versions : Display(v)
    \/ ParseDisplayed
    \/ log = <<>> /\ \E text \in Texts : Parse(text)
    \/ log = <<>> /\ \E v \in Versions : TryFrom(v)

SpecVersion == InitVersion /\ [][NextVersion]_vars

\* The release an array of segments names: a.b.c, or a.b.c.d when d is not 0.
ReleaseNamed(v) == IF v[4] = 0 THEN <<v[1], v[2], v[3]>> ELSE v

\* C39: two different arrays of segments that both convert never give the
\* same starknet_api version, and an array that converts gives the release
\* its segments name.
C39_ConversionIsInjective ==
    \A i \in 1..Len(log) :
        (log[i].op = "try_from" /\ log[i].result.tag = "Ok") =>
            /\ \A w \in Versions :
                  (w # log[i].version /\ try_from(w).tag = "Ok")
                      => try_from(w) # log[i].result
            /\ log[i].result.val = ReleaseNamed(log[i].version)

\* A segment without its "+" and its leading zeros.
RECURSIVE StripZeros(_)
StripZeros(digits) ==
    IF Len(digits) > 1 /\ Head(digits) = "0" THEN StripZeros(Tail(digits)) ELSE digits

Unsigned(seg) == IF seg # <<>> /\ Head(seg) = "+" THEN Tail(seg) ELSE seg

\* A segment that is no number: it has a character that is no digit, a
\* leading "+" aside, or nothing but the "+".
NonNumeric(seg) ==
    seg # <<>> /\ (Unsigned(seg) = <<>>
                     \/ \E i \in 1..Len(Unsigned(seg)) : ~IsDigit(Unsigned(seg)[i]))

\* C40: parse(v.to_string()) is v for every version v; to_string prints the
\* first three segments always and the fourth only when it is not zero;
\* parse rejects the empty text, a text of more than four segments and a
\* text with a segment that is no number, and in what it accepts a missing
\* or empty segment is zero and every other segment has its decimal value.
C40_TextRoundTrip ==
    \A i \in 1..Len(log) :
        LET v == log[i].version
            text == log[i].text
            parts == split(text)
            result == log[i].result
        IN /\ log[i].op = "to_string" =>
                 /\ Len(parts) = IF v[4] = 0 THEN 3 ELSE 4
                 /\ \A j \in 1..Len(parts) : parts[j] = to_decimal(v[j])
           /\ (log[i].op = "parse" /\ i = 2) => result = Ok(log[1].version)
           /\ log[i].op = "parse" =>
                 /\ (text = <<>> \/ Len(parts) > 4) => result = Err("InvalidFormat", "")
                 /\ (\E j \in 1..Len(parts) : NonNumeric(parts[j])) => result.tag = "Err"
                 /\ result.tag = "Ok" =>
                       \A j \in 1..4 :
                           IF j > Len(parts) \/ parts[j] = <<>> THEN result.val[j] = 0
                           ELSE to_decimal(result.val[j]) = StripZeros(Unsigned(parts[j]))

\* The version 255.10.0.0 printed as "255.10.0" and parsed back.
C40_Witness ==
    /\ Len(log) = 2
    /\ log[1].op = "to_string" /\ log[1].version = <<255, 10, 0, 0>>
    /\ log[1].text = <<"2", "5", "5", ".", "1", "0", ".", "0">>
    /\ log[2].op = "parse" /\ log[2].result = Ok(<<255, 10, 0, 0>>)

=============================================================================
